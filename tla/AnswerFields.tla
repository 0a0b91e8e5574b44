---------------------------- MODULE AnswerFields ----------------------------
(***************************************************************************)
(* What becomes of the values of the language model's answers: their       *)
(* conversion, the flush of the row, and its way to the client.  The       *)
(* synchronous endpoint builds its response before get_db_session commits; *)
(* a worker commits, and a later GET builds the response:                  *)
(*                                                                         *)
(*    parse -> categorize -> flush -> (respond) -> commit -> read          *)
(*                                                                         *)
(* Values are classes of JSON values; one column stands for those that are *)
(* treated alike.  PostgreSQL and pydantic are external.                   *)
(***************************************************************************)

\* "formatted" is text that is no number, "nan" a NaN, "huge" exceeds
\* Numeric(18, 4), or is infinite.
Amount == {"absent", "zero", "plain", "formatted", "nan", "huge"}
Date == {"absent", "iso", "other"}
Code == {"absent", "USD", "usd", "AUD"}

\* "long" exceeds the column, "number" is a JSON number.
Text == {"absent", "text", "long", "number"}

\* "large" is ten or more.
Score == {"absent", "null", "text", "number", "large"}

\* An element of the answer's list of line items.
Item == [kind : {"scalar"}, quantity : {"absent"}, price : {"absent"}]
            \cup [ kind : {"object"},
                   quantity : {"absent", "zero", "number", "text", "nan"},
                   price : {"absent", "zero", "plain", "formatted"} ]

\* A list stands for the set of its elements: the code treats them one by one,
\* and any of them can fail the whole.
CONSTANT ItemLists

ASSUME AnswerAssumption == ItemLists \subseteq SUBSET Item

\* The elements may also come in something that is no list.
LineItems == [list : BOOLEAN, elements : ItemLists]

Extraction == [ vendor : Text, date : Date, currency : Code, amount : Amount,
                items : LineItems, confidence : Score ]

Categorization == [ category : {"absent", "null", "known", "unknown"},
                    confidence : Score ]

\* domain/enums: the members of Currency.
Currency == {"USD"}

VARIABLES
    caller,    \* worker or request
    answer,    \* the answer to the extraction request
    step,
    row,       \* the values in the session
    stored,    \* the committed row
    shown      \* what the last GET answered: none, row or error

vars == <<caller, answer, step, row, stored, shown>>

Nothing == [vendor |-> "absent", date |-> "absent", currency |-> "absent",
            amount |-> "absent", items |-> {}, confidence |-> "absent",
            category |-> "absent"]

Init ==
    /\ caller \in {"worker", "request"}
    /\ answer \in Extraction
    /\ step = "parse"
    /\ row = Nothing /\ stored = Nothing
    /\ shown = "none"

-----------------------------------------------------------------------------
(***************************************************************************)
(* _parse_extraction_response; "raises" stands for an exception.           *)
(***************************************************************************)

\* Zero is taken for a missing value.
BadToDecimal(v) == IF v \in {"formatted", "zero"} THEN "absent" ELSE v

ToDecimal(v) == IF v = "formatted" THEN "absent" ELSE v

\* The ValueError is not caught.
BadToDate(v) == IF v = "other" THEN "raises" ELSE v

ToDate(v) == IF v = "other" THEN "absent" ELSE v

Upper(v) == IF v = "usd" THEN "USD" ELSE v

ToCurrency(v) == IF Upper(v) \in Currency THEN Upper(v) ELSE "absent"

ToFloat(v) == IF v \in {"null", "text"} THEN "raises" ELSE v

CleanItem(item) ==
    [ quantity |-> IF item.quantity \in {"absent", "zero"} THEN "one"
                   ELSE ToFloat(item.quantity),
      price    |-> IF item.price = "absent" THEN "zero" ELSE item.price ]

CleanLineItems(items) ==
    IF ~items.list THEN {}
    ELSE {CleanItem(item) : item \in {i \in items.elements : i.kind = "object"}}

ParseExtraction(data) ==
    [ vendor     |-> data.vendor,
      date       |-> ToDate(data.date),
      currency   |-> ToCurrency(data.currency),
      amount     |-> ToDecimal(data.amount),
      items      |-> CleanLineItems(data.items),
      confidence |-> IF data.confidence = "absent" THEN "number"
                     ELSE ToFloat(data.confidence),
      category   |-> "absent" ]

Raises(values) ==
    \/ "raises" \in {values.date, values.currency, values.amount, values.confidence}
    \/ \E item \in values.items : item.quantity = "raises"

\* categorize_expense: None has no lower().
Category(data) ==
    CASE data.category = "null" \/ ToFloat(data.confidence) = "raises" -> "raises"
      [] data.category = "known" -> "known"
      [] OTHER -> "other"

(***************************************************************************)
(* InvoiceModel: Numeric(18, 4) takes a NaN but nothing huge, Numeric(5, 4)*)
(* no ten, asyncpg no number for a text, JSONB no NaN.                     *)
(***************************************************************************)
Storable(values) ==
    /\ values.vendor \in {"absent", "text"}
    /\ values.amount # "huge"
    /\ values.confidence # "large"
    /\ \A item \in values.items : item.quantity # "nan"

\* _to_entity: confidence may be NULL, and Currency(...) knows the members of
\* the enumeration only.
ToEntity(model) ==
    [model EXCEPT
        !.confidence = IF @ = "absent" THEN "number" ELSE @,
        !.currency = IF @ \in Currency \cup {"absent"} THEN @ ELSE "raises"]

\* The response model: a confidence is needed, and pydantic's Decimal is
\* finite, also in a line item.
Valid(response) ==
    /\ response.confidence # "absent"
    /\ response.amount # "nan"
    /\ \A item \in response.items : item.price # "formatted"

\* Whether _to_detail_response can be built of a row.
Readable(values) == ToEntity(values).currency # "raises" /\ Valid(ToEntity(values))

-----------------------------------------------------------------------------
Parse ==
    /\ step = "parse"
    /\ row' = ParseExtraction(answer)
    /\ step' = IF Raises(row') THEN "failed" ELSE "categorize"
    /\ UNCHANGED <<caller, answer, stored, shown>>

Categorize ==
    /\ step = "categorize"
    /\ \E data \in Categorization :
          IF Category(data) = "raises"
          THEN step' = "failed" /\ UNCHANGED row
          ELSE step' = "flush" /\ row' = [row EXCEPT !.category = Category(data)]
    /\ UNCHANGED <<caller, answer, stored, shown>>

\* The response is built after the commit.
BadFlush ==
    /\ step = "flush"
    /\ step' = IF Storable(row) THEN "commit" ELSE "failed"
    /\ UNCHANGED <<caller, answer, row, stored, shown>>

\* update_extracted_data; the duplicate check drops its exceptions.
Flush ==
    /\ step = "flush"
    /\ step' = IF ~Storable(row) THEN "failed"
               ELSE IF caller = "request" THEN "respond" ELSE "commit"
    /\ UNCHANGED <<caller, answer, row, stored, shown>>

\* The endpoint's return value; a ValidationError makes the session roll back.
Respond ==
    /\ step = "respond"
    /\ step' = IF Readable(row) THEN "commit" ELSE "failed"
    /\ UNCHANGED <<caller, answer, row, stored, shown>>

Commit ==
    /\ step = "commit"
    /\ stored' = row
    /\ step' = "processed"
    /\ UNCHANGED <<caller, answer, row, shown>>

\* GET /invoices/{id}; GET /invoices fails likewise for the whole page.
Get ==
    /\ shown = "none"
    /\ shown' = IF Readable(stored) THEN "row" ELSE "error"
    /\ UNCHANGED <<caller, answer, step, row, stored>>

Next == Parse \/ Categorize \/ Flush \/ Respond \/ Commit \/ Get

Spec == Init /\ [][Next]_vars

-----------------------------------------------------------------------------
\* The answer, with the values the parser means to ignore left out.
Cleaned(data) ==
    [data EXCEPT
        !.date = IF @ = "other" THEN "absent" ELSE @,
        !.currency = IF @ = "AUD" THEN "absent" ELSE @,
        !.amount = IF @ = "formatted" THEN "absent" ELSE @,
        !.items = [ list |-> TRUE,
                    elements |-> {i \in @.elements : @.list /\ i.kind = "object"}]]

\* The answers the code cannot take: a confidence or a quantity that is no
\* number, what a column does not hold, and for the synchronous endpoint also
\* what its response does not.
Unusable(data) ==
    LET items == data.items
        objects == {i \in items.elements : items.list /\ i.kind = "object"}
    IN  \/ data.confidence \in {"null", "text", "large"}
        \/ data.vendor \in {"long", "number"}
        \/ data.amount = "huge"
        \/ \E i \in objects : i.quantity \in {"text", "nan"}
        \/ /\ caller = "request"
           /\ data.amount = "nan" \/ \E i \in objects : i.price = "formatted"

CategoryFailed == step = "failed" /\ ~Raises(row) /\ row.category = "absent"

\* A date, an amount, a currency, a list or an element of it in the wrong form
\* is as good as a missing one: it changes no other column, and it does not
\* fail the invoice at any of the later steps, which only the values listed
\* above and the answer about the category do.
MalformedIsDropped ==
    /\ step # "parse" => row = [ParseExtraction(Cleaned(answer)) EXCEPT
                                   !.category = row.category]
    /\ step = "failed" => Unusable(answer) \/ CategoryFailed

\* The answer keeps to the schema of the prompt, in the ranges of the columns.
Conforms(data) ==
    /\ data.vendor \in {"absent", "text"}
    /\ data.date \in {"absent", "iso"}
    /\ data.currency \in {"absent", "USD", "AUD"}
    /\ data.amount \in {"absent", "zero", "plain"}
    /\ data.confidence = "number"
    /\ data.items.list
    /\ \A item \in data.items.elements :
          /\ item.kind = "object"
          /\ item.quantity \in {"zero", "number"}
          /\ item.price \in {"zero", "plain"}

\* A line item of the answer comes through, but for a quantity of zero.
Keeps(given, kept) ==
    /\ kept.price = given.price
    /\ kept.quantity = given.quantity \/ given.quantity = "zero"

\* An answer that conforms is stored as it was given, zero amounts and prices
\* too: its columns come through the conversions, the flush and the response
\* unchanged, its line items one by one, and only the answer about the category
\* can fail it.  Two values do not come through, the currency AUD and a
\* quantity of zero.
ConformingIsStored ==
    Conforms(answer) /\ step # "parse" =>
        /\ row.vendor = answer.vendor /\ row.date = answer.date
        /\ row.currency = answer.currency \/ answer.currency = "AUD"
        /\ row.amount = answer.amount /\ row.confidence = answer.confidence
        /\ \A given \in answer.items.elements :
              \E kept \in row.items : Keeps(given, kept)
        /\ \A kept \in row.items :
              \E given \in answer.items.elements : Keeps(given, kept)
        /\ step = "failed" => CategoryFailed
        /\ stored # Nothing => shown # "error"

\* What the synchronous endpoint commits can be read again: a row that no
\* response can be built of is rolled back.
RequestStoresReadable ==
    caller = "request" => Readable(stored)

\* domain/enums: PROCESSED is "Extraction complete, data available": a GET of
\* a processed invoice is answered with its row.
ProcessedIsReadable == step = "processed" => shown # "error"

\* The prompt's rules and its schema have AUD: "A$" or "AUD" means "AUD".
CurrencyIsStored ==
    Conforms(answer) /\ step # "parse" => row.currency = answer.currency

\* The prompt has the quantity as the "numeric value from Quantity column".
QuantityIsStored ==
    Conforms(answer) /\ step # "parse" =>
        \A given \in answer.items.elements :
            \E kept \in row.items : kept.quantity = given.quantity
=============================================================================
