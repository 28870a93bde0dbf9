----------------------------- MODULE ApiAnswers -----------------------------
(***************************************************************************)
(* What a request of the HTTP API may be refused with, stage by stage, and *)
(* the answer each problem becomes (api/views.py, api/exceptions.py,       *)
(* api/renderers.py), for the endpoints of the shared diary.               *)
(*                                                                         *)
(* A problem is named after the exception that is raised, an answer is its *)
(* status and the errorCode of its envelope.                               *)
(***************************************************************************)
EXTENDS Integers

-----------------------------------------------------------------------------
(* The stages of a request                                                 *)

\* The session and the CSRF token.
Authentication == {"NotAuthenticated", "CsrfFailed"}

\* _participant_for_request
Participation == {"ParticipantRequired"}

\* The renderer is chosen before anything is read.
Negotiation == {"NotAcceptable"}

\* BoundedJSONParser: media type, size and syntax of the body.
Parsing == {"UnsupportedMediaType", "RequestBodyTooLarge", "ParseError"}

\* The strict serializers of the commands.
Validation == {"ValidationError"}

\* _ensure_media_uploads_available, when the command names uploads.
Availability == {"MediaUploadServiceUnavailable"}

\* _raise_media_upload_api_error: what each MediaUploadError is raised as.
MediaProblems == {"ValidationError", "NotFound", "PermissionDenied",
                  "MediaUploadConflict", "MediaUploadServiceUnavailable"}

\* An endpoint with neither a body nor uploads, and one with a JSON body that may
\* name uploads.
Bodiless == Negotiation \cup Authentication \cup Participation
WithBody == Bodiless \cup Parsing \cup Validation \cup Availability \cup MediaProblems

-----------------------------------------------------------------------------
(* From problem to answer                                                  *)

\* Exceptions of this API carry their status and code, whatever the status.
ApiProblems ==
    [CsrfFailed          |-> [status |-> 403, code |-> "CSRF_FAILED"],
     ParticipantRequired |-> [status |-> 403, code |-> "PARTICIPANT_REQUIRED"],
     RequestBodyTooLarge |-> [status |-> 413, code |-> "REQUEST_BODY_TOO_LARGE"]]

UploadProblems ==
    [MediaUploadConflict           |-> [status |-> 409, code |-> "MEDIA_UPLOAD_CONFLICT"],
     MediaUploadServiceUnavailable |-> [status |-> 503, code |-> "MEDIA_UPLOADS_UNAVAILABLE"]]

\* Those of the framework have its status, and get their code here.  Without a
\* WWW-Authenticate header a missing session is a 403.
Contract ==
    [ValidationError      |-> [status |-> 400, code |-> "INVALID_INPUT"],
     ParseError           |-> [status |-> 400, code |-> "INVALID_JSON"],
     NotAuthenticated     |-> [status |-> 403, code |-> "AUTHENTICATION_REQUIRED"],
     PermissionDenied     |-> [status |-> 403, code |-> "PERMISSION_DENIED"],
     NotFound             |-> [status |-> 404, code |-> "NOT_FOUND"],
     NotAcceptable        |-> [status |-> 406, code |-> "NOT_ACCEPTABLE"],
     UnsupportedMediaType |-> [status |-> 415, code |-> "UNSUPPORTED_MEDIA_TYPE"]]

\* Whatever else is raised, before or after a commit.
Unhandled == [status |-> 500, code |-> "INTERNAL_SERVER_ERROR"]

\* api_exception_handler
AnswerTo(problem) ==
    CASE problem \in DOMAIN ApiProblems    -> ApiProblems[problem]
      [] problem \in DOMAIN UploadProblems -> UploadProblems[problem]
      [] problem \in DOMAIN Contract       -> Contract[problem]
      [] OTHER                             -> Unhandled

\* EnvelopeJSONRenderer wraps what a view returns.
Success(status) == [status |-> status, code |-> "SUCCESS"]

\* No answer of this API: the connection broke, or a proxy answered without an
\* error envelope.
NetworkError == [status |-> 0, code |-> ""]
ProxyError   == [status |-> 502, code |-> ""]
=============================================================================
