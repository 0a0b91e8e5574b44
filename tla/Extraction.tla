----------------------------- MODULE Extraction -----------------------------
(***************************************************************************)
(* A run of process_invoice up to the answer of the second model call,     *)
(* which InvoicePipeline takes as one step, and the HTTP answer that POST  *)
(* /invoices/{id}/process makes of a failure:                              *)
(*                                                                         *)
(*   identify -> native -> (open -> binarize)* -> extract -> categorize    *)
(*                                                                         *)
(* pdfplumber, Tesseract and the OpenAI SDK are external; a request is one *)
(* call of the SDK, with whatever it repeats on its own.  Pages stand for  *)
(* their words: a text is the set of the pages whose words it contains.    *)
(***************************************************************************)
EXTENDS ApiErrors, FiniteSetsExt, SequencesExt

CONSTANTS
    NumPages,     \* bound on the pages of a document
    MaxAttempts,  \* stop_after_attempt
    Levels, Default,   \* of OtsuThreshold
    MaxCount           \* bound on the pixels of one grey level

ASSUME ExtractionAssumption ==
    /\ NumPages \in Nat \ {0}
    /\ MaxAttempts \in Nat \ {0}
    /\ Levels \in Nat \ {0} /\ MaxCount \in Nat
    /\ Default \in 0 .. Levels - 1

Pages == 1 .. NumPages

Format == {"pdf", "image"}

\* How the words of a page are stored.  "foreign" are those outside ASCII.
PageKind == {"native", "foreign", "scanned", "blank"}

\* The OCR provider goes by the file name's suffix, the AI client by the MIME
\* type; the client chose both.  A long text has more than 6000 characters.
\* The pages of an image are the frames of a TIFF; other images have only one.
Documents ==
    {d \in [content : Format, suffix : Format, mime : Format,
            pages : [Pages -> PageKind], long : BOOLEAN] :
        d.content = "image" =>
            \A p \in Pages : d.pages[p] \in {"scanned", "blank"}}

Answers == {"ok",          \* JSON with the expected types
            "rate_limit",  \* RateLimitError
            "api_error",   \* any other APIError
            "bad_json",    \* JSONDecodeError
            "bad_value"}   \* a value whose conversion raises

VARIABLES
    document,   \* the uploaded file
    tesseract,  \* whether the Tesseract program can be run
    step,       \* where process_invoice is
    page,       \* the page that is being recognized
    text,       \* the text OCR has found
    shown,      \* the pages the extraction request was made from
    requests,   \* the requests to the model so far: <<call, answer>>
    tries,      \* attempts of the current call
    limited,    \* whether the worker's soft time limit has passed
    struck,     \* the page whose recognition dropped it, 0 if none did
    outcome,    \* none, processed, or the exception that was raised
    hist, t, weightBg, sumBg, best, threshold, done  \* of OtsuThreshold

loop == <<hist, t, weightBg, sumBg, best, threshold, done>>
input == <<document, tesseract>>
model == <<requests, tries>>
limit == <<limited, struck>>
vars == <<input, step, page, text, shown, model, limit, outcome, loop>>

Otsu == INSTANCE OtsuThreshold

Pieces(kinds) == {p \in Pages : document.pages[p] \in kinds}

\* What a rendered page's histogram can be: a page with words has two levels.
Histograms(kind) ==
    {h \in [Otsu!Grey -> 0 .. MaxCount] :
        LET used == {x \in Otsu!Grey : h[x] > 0}
        IN  IF kind = "blank" THEN Cardinality(used) = 1
                              ELSE Cardinality(used) > 1}

NoPixels == [x \in Otsu!Grey |-> 0]

Init ==
    /\ document \in Documents
    /\ tesseract \in BOOLEAN
    /\ step = "identify" /\ page = 1
    /\ text = {} /\ shown = {}
    /\ requests = << >> /\ tries = 0
    /\ limited = FALSE /\ struck = 0 /\ outcome = "none"
    /\ hist = NoPixels /\ t = 0 /\ weightBg = 0 /\ sumBg = 0
    /\ best = [num |-> 0, den |-> 1] /\ threshold = Default /\ done = FALSE

-----------------------------------------------------------------------------
End(result) == step' = "end" /\ outcome' = result

\* get_current_user_id: the header is missing or not a UUID; FastAPI: the
\* path's id is not one; get_by_id: no such invoice of this user.
Refuse ==
    /\ step = "identify"
    /\ \E error \in {"HTTPException", "RequestValidationError", "NotFoundError"} :
          End(error)
    /\ UNCHANGED <<input, page, text, shown, model, limit, loop>>

\* extract_text goes by the suffix.
Identify ==
    /\ step = "identify"
    /\ step' = IF document.suffix = "pdf" THEN "native" ELSE "open"
    /\ UNCHANGED <<input, page, text, shown, model, limit, outcome, loop>>

(***************************************************************************)
(* TesseractOCRProvider.extract_text, and _normalize_text, which drops     *)
(* whatever is not ASCII.                                                  *)
(***************************************************************************)
Normalized(pieces) == pieces \ Pieces({"foreign"})

\* Text that consists of blanks only is text too.
BadReadNative ==
    /\ step = "native"
    /\ step' = "extract"
    /\ text' = Normalized(Pieces({"native", "foreign"}))
    /\ UNCHANGED <<input, page, shown, model, limit, outcome, loop>>

\* pdfplumber: if it raises, or finds no text at all, the pages are rasterized.
ReadNative ==
    /\ step = "native"
    /\ LET found == Pieces({"native", "foreign"})
       IN  \/ /\ document.content = "pdf" /\ found # {}
              /\ text' = Normalized(found)
              /\ step' = "extract"
           \/ step' = "open" /\ UNCHANGED text
    /\ UNCHANGED <<input, page, shown, model, limit, outcome, loop>>

\* The file cannot be opened as an image, or rasterized.
OpenFails ==
    /\ step = "open" /\ page = 1
    /\ End("OCRError")
    /\ UNCHANGED <<input, page, text, shown, model, limit, loop>>

\* _preprocess_image up to the histogram of the page.
OpenPage ==
    /\ step = "open"
    /\ document.content = document.suffix
    /\ \E h \in Histograms(document.pages[page]) : Otsu!Call(h)
    /\ step' = "binarize"
    /\ UNCHANGED <<input, page, text, shown, model, limit, outcome>>

Binarize ==
    /\ step = "binarize"
    /\ Otsu!Iterate
    /\ UNCHANGED <<input, step, page, text, shown, model, limit, outcome>>

\* The image has English words that are black on white.
Legible ==
    Otsu!Splits(threshold) /\ document.pages[page] \in {"native", "scanned"}

\* _ocr_best_of_psm_modes drops the exceptions of image_to_string: without
\* Tesseract every mode finds nothing, and a mode that the time limit strikes
\* may have been the one that finds the words.  Of an image only the first
\* frame is read.
Recognize ==
    /\ step = "binarize" /\ done
    /\ \/ tesseract /\ Legible /\ text' = text \cup {page}
       \/ (tesseract /\ Legible => struck = page) /\ UNCHANGED text
    /\ IF document.suffix = "pdf" /\ page < NumPages
       THEN step' = "open" /\ page' = page + 1
       ELSE step' = "extract" /\ UNCHANGED page
    /\ Otsu!Call(NoPixels)
    /\ UNCHANGED <<input, shown, model, limit, outcome>>

(***************************************************************************)
(* _chat and _chat_vision: one attempt.  _RETRY names APIError, but what   *)
(* leaves the method is an AIProviderError: only RateLimitError, which is  *)
(* raised again as it is, reaches tenacity's predicate.                    *)
(***************************************************************************)

Answered(call, answer) ==
    \/ answer = "rate_limit" /\ End("RateLimitError")
    \/ answer = "api_error" /\ End("AIProviderError")
    \/ answer = "bad_json" /\ End("ExtractionError")
    \/ answer = "bad_value" /\ End("ValueError")
    \/ answer = "ok" /\ call = "extract" /\ step' = "categorize" /\ UNCHANGED outcome
    \/ answer = "ok" /\ call = "categorize" /\ End("processed")

\* The attempts are counted across the calls.
BadAttempt(call, answer) ==
    /\ step = call
    /\ requests' = Append(requests, <<call, answer>>)
    /\ IF answer = "rate_limit" /\ tries + 1 < MaxAttempts
       THEN tries' = tries + 1 /\ UNCHANGED <<step, outcome>>
       ELSE UNCHANGED tries /\ Answered(call, answer)

Attempt(call, answer) ==
    /\ step = call
    /\ requests' = Append(requests, <<call, answer>>)
    /\ IF answer = "rate_limit" /\ tries + 1 < MaxAttempts
       THEN tries' = tries + 1 /\ UNCHANGED <<step, outcome>>
       ELSE tries' = 0 /\ Answered(call, answer)

UseVision == document.mime = "image"

\* raw_text[:6000] cuts off the end.
Truncated(pieces) ==
    IF document.long THEN {p \in pieces : \E q \in pieces : p < q} ELSE pieces

\* The model is shown the file of an image, or the beginning of the text.
Shown == IF UseVision THEN Pieces({"scanned"}) ELSE Truncated(text)

\* A PDF is no image to the model.
Extract ==
    /\ \E answer \in Answers :
          /\ UseVision /\ document.content = "pdf" =>
                answer \in {"api_error", "rate_limit"}
          /\ Attempt("extract", answer)
    /\ shown' = Shown
    /\ UNCHANGED <<input, page, text, limit, loop>>

Categorize ==
    /\ \E answer \in Answers : Attempt("categorize", answer)
    /\ UNCHANGED <<input, page, text, shown, limit, loop>>

\* SoftTimeLimitExceeded strikes a worker once, wherever it is.  It is an
\* Exception like any other: pdfplumber's except clause and that of the
\* recognition drop it, and the run goes on without what it was reading.
SoftTimeLimit ==
    /\ step \notin {"identify", "end"} /\ ~limited
    /\ limited' = TRUE
    /\ \/ step = "native" /\ step' = "open" /\ UNCHANGED <<outcome, struck>>
       \/ step = "binarize" /\ done /\ struck' = page /\ UNCHANGED <<step, outcome>>
       \/ step \in {"open", "binarize"} /\ End("OCRError") /\ UNCHANGED struck
       \/ /\ step \in {"extract", "categorize"}
          /\ End("SoftTimeLimitExceeded") /\ UNCHANGED struck
    /\ UNCHANGED <<input, page, text, shown, model, loop>>

Next == \/ Refuse \/ Identify \/ ReadNative
        \/ OpenFails \/ OpenPage \/ Binarize \/ Recognize
        \/ Extract \/ Categorize \/ SoftTimeLimit

Spec == Init /\ [][Next]_vars

-----------------------------------------------------------------------------
Failed == outcome \notin {"none", "processed"}

Words == Pieces({"native", "foreign", "scanned"})

\* Why the words of page p may be missing from what the model is shown.
Reason(p) ==
    \/ document.pages[p] = "foreign"             \* no ASCII
    \/ ~UseVision /\ document.content = "image" /\ p # 1   \* a later frame
    \/ /\ ~UseVision /\ document.pages[p] = "scanned"
       /\ Pieces({"native", "foreign"}) # {}     \* a scan in a PDF that has text
    \/ ~UseVision /\ ~tesseract /\ shown = {}    \* nothing can be recognized
    \/ ~UseVision /\ struck = p                  \* the limit hit its recognition
    \/ /\ ~UseVision /\ document.long
       /\ \A q \in shown : q < p                 \* the end is cut off

\* What is stored was read from all the words of the document but those that
\* were lost for one of these reasons: whichever of the ways of reading a
\* document is taken, after whatever failure or time limit, the model is shown
\* every page that this way can read.
NothingElseUnread ==
    outcome = "processed" => \A p \in Words \ shown : Reason(p)

\* A call that fails for its rate limit has been tried MaxAttempts times in a
\* row, whatever the other call has used.
EachCallHasItsAttempts ==
    outcome = "RateLimitError" =>
        /\ Len(requests) >= MaxAttempts
        /\ \A k \in (Len(requests) - MaxAttempts + 1) .. Len(requests) :
              requests[k] = <<Last(requests)[1], "rate_limit">>

\* The binarization of every page finds Otsu's threshold, and leaves its
\* words distinct from the paper.
ThresholdIsOtsu == Otsu!ThresholdIsOtsu
InkSurvives == Otsu!InkSurvives

-----------------------------------------------------------------------------
\* AbstractOCRProvider.extract_text: "Raises OCRError on provider failure."
ProviderFailureIsReported ==
    outcome = "processed" /\ ~tesseract =>
        document.suffix = "pdf" /\ Pieces({"native", "foreign"}) # {}

\* The AI client: "Tenacity handles transient API errors without burdening
\* callers", and _RETRY lists APIError: such an error is tried again.
ApiErrorsAreRetried ==
    outcome = "AIProviderError" =>
        /\ Len(requests) >= MaxAttempts
        /\ \A k \in (Len(requests) - MaxAttempts + 1) .. Len(requests) :
              requests[k][2] \in {"api_error", "rate_limit"}

\* README.md, on 422 EXTRACTION_FAILED: "AI/OCR could not extract data".
FailedExtractionIs422 ==
    Failed /\ ~limited /\ requests # << >> =>
        Envelope(outcome) = [status |-> 422, code |-> "EXTRACTION_FAILED"]

\* README.md: "All errors return the same envelope."
EveryErrorHasEnvelope == Failed => Envelope(outcome).code # "none"
=============================================================================
