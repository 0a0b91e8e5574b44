------------------------------ MODULE ApiErrors ------------------------------
(***************************************************************************)
(* What the API answers when a handler raises.  Starlette walks the        *)
(* exception's MRO and calls the handler of the first class that has one;  *)
(* every class here has a single base.                                     *)
(***************************************************************************)
EXTENDS Naturals

\* domain/exceptions: the base of each class.  DatabaseError, StorageError,
\* CategorizationError and AlreadyExistsError are never raised.
DomainBase ==
    [ InvoiceAIError           |-> "Exception",
      NotFoundError            |-> "InvoiceAIError",
      ValidationError          |-> "InvoiceAIError",
      UnsupportedFileTypeError |-> "ValidationError",
      FileSizeExceededError    |-> "ValidationError",
      OCRError                 |-> "InvoiceAIError",
      ExtractionError          |-> "InvoiceAIError",
      AIProviderError          |-> "InvoiceAIError" ]

\* Exceptions of the libraries that reach the application.
OtherBase ==
    [ HTTPException          |-> "Exception",   \* of get_current_user_id
      RequestValidationError |-> "Exception",   \* of FastAPI
      RateLimitError         |-> "Exception",   \* an APIError of the SDK
      ValueError             |-> "Exception",
      SoftTimeLimitExceeded  |-> "Exception" ]

Base == [e \in DOMAIN DomainBase \cup DOMAIN OtherBase |->
            IF e \in DOMAIN DomainBase THEN DomainBase[e] ELSE OtherBase[e]]

\* FastAPI's own two handlers answer {"detail": ...}, without an envelope.
Handlers ==
    [ NotFoundError            |-> [status |-> 404, code |-> "NOT_FOUND"],
      UnsupportedFileTypeError |-> [status |-> 415, code |-> "UNSUPPORTED_FILE_TYPE"],
      FileSizeExceededError    |-> [status |-> 413, code |-> "FILE_TOO_LARGE"],
      ValidationError          |-> [status |-> 422, code |-> "VALIDATION_ERROR"],
      OCRError                 |-> [status |-> 422, code |-> "OCR_FAILED"],
      ExtractionError          |-> [status |-> 422, code |-> "EXTRACTION_FAILED"],
      InvoiceAIError           |-> [status |-> 500, code |-> "INTERNAL_ERROR"],
      HTTPException            |-> [status |-> 401, code |-> "none"],
      RequestValidationError   |-> [status |-> 422, code |-> "none"],
      Exception                |-> [status |-> 500, code |-> "none"] ]

Nearest[e \in DOMAIN Base \cup {"Exception"}] ==
    IF e \in DOMAIN Handlers THEN e ELSE Nearest[Base[e]]

Envelope(exception) == Handlers[Nearest[exception]]
=============================================================================
