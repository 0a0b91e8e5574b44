---------------------------- MODULE AnswerProofs ----------------------------
(***************************************************************************)
(* What becomes of an answer's values, for lists of line items of any      *)
(* length and content.                                                     *)
(***************************************************************************)
EXTENDS AnswerFields, TLAPS

\* At each step the row is the converted answer with a category; only a row
\* that got past the flush is committed, and for a request past the response.
AnswerInv ==
    /\ caller \in {"worker", "request"} /\ answer \in Extraction
    /\ step \in {"parse", "categorize", "flush", "respond", "commit",
                 "processed", "failed"}
    /\ step # "parse" => row = [ParseExtraction(answer) EXCEPT !.category = row.category]
    /\ step \in {"categorize", "flush", "respond", "commit", "processed"} => ~Raises(row)
    /\ step \in {"parse", "categorize"} => row.category = "absent"
    /\ step = "failed" => Unusable(answer) \/ CategoryFailed
    /\ step = "respond" => caller = "request"
    /\ caller = "request" /\ step = "commit" => Readable(row)
    /\ stored = Nothing \/ (stored = row /\ step = "processed")
    /\ caller = "request" => Readable(stored)
    /\ shown = "error" => ~Readable(stored)

\* What a list contributes to the row is the same without its malformed
\* elements.
LEMMA CleanedItems ==
    ASSUME NEW data \in Extraction
    PROVE  CleanLineItems(Cleaned(data).items) = CleanLineItems(data.items)
<1>1. data.items \in LineItems
  BY DEF Extraction
<1>2. Cleaned(data).items =
          [ list |-> TRUE,
            elements |-> {i \in data.items.elements :
                             data.items.list /\ i.kind = "object"} ]
  BY DEF Cleaned, Extraction
<1>3. CASE data.items.list
  BY <1>2, <1>3 DEF CleanLineItems
<1>4. CASE ~data.items.list
  BY <1>2, <1>4 DEF CleanLineItems
<1>5. QED
  BY <1>3, <1>4

\* Every column is converted by itself, and a malformed value like none.
LEMMA CleanedIsParsedAlike ==
    ASSUME NEW data \in Extraction
    PROVE  ParseExtraction(Cleaned(data)) = ParseExtraction(data)
<1> DEFINE clean == Cleaned(data)
<1>1. /\ clean.vendor = data.vendor /\ clean.confidence = data.confidence
      /\ ToDate(clean.date) = ToDate(data.date)
      /\ ToCurrency(clean.currency) = ToCurrency(data.currency)
      /\ ToDecimal(clean.amount) = ToDecimal(data.amount)
  BY DEF Cleaned, Extraction, ToDate, ToCurrency, Upper, Currency, ToDecimal,
         Date, Code, Amount
<1>2. QED
  BY <1>1, CleanedItems DEF ParseExtraction

\* What is not listed as unusable raises nothing, the columns take it, and for
\* a request a response can be built of it.
LEMMA UsablePasses ==
    ASSUME NEW data \in Extraction, ~Unusable(data), NEW category
    PROVE  LET values == [ParseExtraction(data) EXCEPT !.category = category]
           IN  /\ ~Raises(values) /\ Storable(values)
               /\ caller = "request" => Readable(values)
<1> DEFINE values == [ParseExtraction(data) EXCEPT !.category = category]
<1>1. /\ values.vendor = data.vendor /\ values.items = CleanLineItems(data.items)
      /\ values.vendor \in {"absent", "text"}
      /\ values.date # "raises" /\ values.currency \in {"USD", "absent"}
      /\ values.amount \in {"absent", "zero", "plain", "nan"}
      /\ caller = "request" => values.amount # "nan"
      /\ values.confidence = "number"
  BY DEF Unusable, ParseExtraction, Extraction, Text, Date, Amount, Score,
         ToDate, ToCurrency, Upper, Currency, ToDecimal, ToFloat
<1>2. ASSUME NEW item \in values.items
      PROVE  /\ item.quantity \in {"one", "number"}
             /\ caller = "request" => item.price # "formatted"
  <2>1. PICK i \in data.items.elements :
          data.items.list /\ i.kind = "object" /\ item = CleanItem(i)
    BY <1>1, <1>2 DEF CleanLineItems
  <2>2. i \in Item
    BY AnswerAssumption DEF Extraction, LineItems
  <2>3. /\ i.quantity \in {"absent", "zero", "number"}
        /\ caller = "request" => i.price # "formatted"
    BY <2>1, <2>2 DEF Unusable, Item
  <2>4. QED
    BY <2>1, <2>3 DEF CleanItem, ToFloat
<1>3. LET entity == ToEntity(values)
      IN  /\ entity.currency = values.currency /\ entity.items = values.items
          /\ entity.amount = values.amount /\ entity.confidence = "number"
  BY <1>1 DEF ToEntity, ParseExtraction, Currency
<1> HIDE DEF values
<1>4. ~Raises(values) /\ Storable(values)
  BY <1>1, <1>2 DEF Raises, Storable
<1>5. caller = "request" => Readable(values)
  BY <1>1, <1>2, <1>3 DEF Readable, Valid
<1>6. QED
  BY <1>4, <1>5 DEF values

\* What the prompt asks for is usable, and comes through the conversions.
LEMMA ConformingIsParsed ==
    ASSUME NEW data \in Extraction, Conforms(data)
    PROVE  LET parsed == ParseExtraction(data)
           IN  /\ ~Unusable(data)
               /\ parsed.vendor = data.vendor /\ parsed.date = data.date
               /\ parsed.currency = data.currency \/ data.currency = "AUD"
               /\ parsed.currency \in {"absent", "USD"}
               /\ parsed.amount = data.amount
               /\ parsed.confidence = data.confidence
               /\ parsed.items = {CleanItem(i) : i \in data.items.elements}
<1> DEFINE parsed == ParseExtraction(data)
<1>1. /\ parsed.vendor = data.vendor /\ parsed.date = data.date
      /\ parsed.currency = data.currency \/ data.currency = "AUD"
      /\ parsed.currency \in {"absent", "USD"}
      /\ parsed.amount = data.amount /\ parsed.confidence = data.confidence
  BY DEF Conforms, ParseExtraction, ToDate, ToCurrency, Upper, Currency,
         ToDecimal, ToFloat
<1>2. parsed.items = {CleanItem(i) : i \in data.items.elements}
  BY DEF ParseExtraction, CleanLineItems, Conforms
<1>3. ~Unusable(data)
  BY DEF Conforms, Unusable
<1>4. QED
  BY <1>1, <1>2, <1>3

\* A conforming line item is kept, and shown.
LEMMA ConformingIsKept ==
    ASSUME NEW data \in Extraction, Conforms(data), NEW i \in data.items.elements
    PROVE  /\ Keeps(i, CleanItem(i))
           /\ CleanItem(i).price # "formatted"
  BY DEF Conforms, CleanItem, Keeps, ToFloat

\* A response can be built of what conforms, for a worker's row too.
LEMMA ConformingIsReadable ==
    ASSUME NEW data \in Extraction, Conforms(data), NEW category
    PROVE  Readable([ParseExtraction(data) EXCEPT !.category = category])
<1> DEFINE parsed == ParseExtraction(data)
           values == [parsed EXCEPT !.category = category]
<1>1. /\ values.amount = parsed.amount /\ values.currency = parsed.currency
      /\ values.confidence = parsed.confidence /\ values.items = parsed.items
  BY DEF ParseExtraction
<1>2. /\ values.amount # "nan" /\ values.confidence = "number"
      /\ values.currency \in {"absent", "USD"}
      /\ \A item \in values.items : item.price # "formatted"
  BY <1>1, ConformingIsParsed, ConformingIsKept DEF Conforms
<1>3. LET entity == ToEntity(values)
      IN  /\ entity.currency = values.currency /\ entity.items = values.items
          /\ entity.amount = values.amount /\ entity.confidence = "number"
  BY <1>2 DEF ToEntity, ParseExtraction, Currency
<1>4. QED
  BY <1>2, <1>3 DEF Readable, Valid

-----------------------------------------------------------------------------
\* Nothing is stored, and nothing can be read.
LEMMA NothingIsReadable == Readable(Nothing)
  BY DEF Readable, Valid, ToEntity, Nothing, Currency

\* Nothing has been parsed yet.
LEMMA InitAnswerInv == Init => AnswerInv
  BY NothingIsReadable DEF Init, AnswerInv, Nothing

\* Every step keeps the row the converted answer.
LEMMA NextAnswerInv == AnswerInv /\ [Next]_vars => AnswerInv'
<1> SUFFICES ASSUME AnswerInv, [Next]_vars PROVE AnswerInv'
  OBVIOUS
<1> USE DEF CategoryFailed
<1>1. answer' = answer /\ caller' = caller /\ (Unusable(answer)' <=> Unusable(answer))
  BY DEF Next, Parse, Categorize, Flush, Respond, Commit, Get, vars, Unusable
<1>2. CASE UNCHANGED vars
  BY <1>1, <1>2 DEF vars, AnswerInv
<1>3. CASE Parse
  <2>1. row' = ParseExtraction(answer) /\ row'.category = "absent"
    BY <1>3 DEF Parse, ParseExtraction
  <2>2. row' = [ParseExtraction(answer) EXCEPT !.category = row'.category]
    BY <2>1 DEF ParseExtraction
  <2>3. Raises(row') => Unusable(answer)
    <3>1. answer \in Extraction
      BY DEF AnswerInv
    <3>2. QED
      BY <2>2, <3>1, UsablePasses
  <2>4. QED
    BY <1>1, <1>3, <2>1, <2>2, <2>3 DEF Parse, AnswerInv
<1>4. CASE Categorize
  <2>1. PICK data \in Categorization :
          IF Category(data) = "raises"
          THEN step' = "failed" /\ UNCHANGED row
          ELSE step' = "flush" /\ row' = [row EXCEPT !.category = Category(data)]
    BY <1>4 DEF Categorize
  <2>2. CASE Category(data) = "raises"
    BY <1>1, <1>4, <2>1, <2>2 DEF Categorize, AnswerInv
  <2>3. CASE Category(data) # "raises"
    <3>1. row = [ParseExtraction(answer) EXCEPT !.category = row.category]
      BY <1>4 DEF Categorize, AnswerInv
    <3>2. /\ row'.category = Category(data)
          /\ row' = [ParseExtraction(answer) EXCEPT !.category = row'.category]
      BY <2>1, <2>3, <3>1 DEF ParseExtraction
    <3>3. Raises(row') <=> Raises(row)
      BY <2>1, <2>3, <3>1 DEF ParseExtraction, Raises
    <3>4. QED
      BY <1>1, <1>4, <2>1, <2>3, <3>2, <3>3 DEF Categorize, AnswerInv
  <2>4. QED
    BY <2>2, <2>3
<1>5. CASE Flush
  <2>1. Unusable(answer) \/ Storable(row)
    BY <1>5, UsablePasses DEF Flush, AnswerInv
  <2>2. QED
    BY <1>1, <1>5, <2>1 DEF Flush, AnswerInv
<1>6. CASE Respond
  <2>1. caller = "request" => Unusable(answer) \/ Readable(row)
    BY <1>6, UsablePasses DEF Respond, AnswerInv
  <2>2. QED
    BY <1>1, <1>6, <2>1 DEF Respond, AnswerInv
<1>7. CASE Commit
  BY <1>1, <1>7, NothingIsReadable DEF Commit, AnswerInv
<1>8. CASE Get
  BY <1>1, <1>8 DEF Get, AnswerInv
<1>9. QED
  BY <1>2, <1>3, <1>4, <1>5, <1>6, <1>7, <1>8 DEF Next

-----------------------------------------------------------------------------
\* A malformed date, amount, currency, list or element of it is as good as a
\* missing one, and an invoice fails for no other value than those listed.
THEOREM MalformedValuesAreDropped == Spec => []MalformedIsDropped
<1>1. AnswerInv => MalformedIsDropped
  BY CleanedIsParsedAlike DEF AnswerInv, MalformedIsDropped
<1>2. QED
  BY <1>1, InitAnswerInv, NextAnswerInv, PTL DEF Spec

\* An answer that keeps to the prompt's schema comes through, however many line
\* items it has, but for the currency AUD and quantities of zero; nothing but
\* the answer about the category fails it, and no GET of it is an error.
THEOREM ConformingAnswersAreStored == Spec => []ConformingIsStored
<1>1. AnswerInv => ConformingIsStored
  <2> SUFFICES ASSUME AnswerInv, Conforms(answer), step # "parse"
               PROVE  ConformingIsStored
    BY DEF ConformingIsStored
  <2> DEFINE parsed == ParseExtraction(answer)
  <2>1. answer \in Extraction /\ row = [parsed EXCEPT !.category = row.category]
    BY DEF AnswerInv
  <2>2. /\ row.vendor = parsed.vendor /\ row.date = parsed.date
        /\ row.currency = parsed.currency /\ row.amount = parsed.amount
        /\ row.confidence = parsed.confidence /\ row.items = parsed.items
    BY <2>1 DEF ParseExtraction
  <2>3. ~Unusable(answer) /\ Readable(row)
    BY <2>1, ConformingIsParsed, ConformingIsReadable
  <2> HIDE DEF parsed
  <2>4. /\ row.vendor = answer.vendor /\ row.date = answer.date
        /\ row.currency = answer.currency \/ answer.currency = "AUD"
        /\ row.amount = answer.amount /\ row.confidence = answer.confidence
        /\ row.items = {CleanItem(i) : i \in answer.items.elements}
    BY <2>1, <2>2, ConformingIsParsed DEF parsed
  <2>5. \A i \in answer.items.elements : Keeps(i, CleanItem(i))
    BY <2>1, ConformingIsKept
  <2>6. step = "failed" => CategoryFailed
    BY <2>3 DEF AnswerInv
  <2>7. stored # Nothing => shown # "error"
    BY <2>3 DEF AnswerInv
  <2>8. QED
    BY <2>4, <2>5, <2>6, <2>7 DEF ConformingIsStored
<1>2. QED
  BY <1>1, InitAnswerInv, NextAnswerInv, PTL DEF Spec

\* What a request commits can be read again.
THEOREM RequestsStoreReadableRows == Spec => []RequestStoresReadable
<1>1. AnswerInv => RequestStoresReadable
  BY DEF AnswerInv, RequestStoresReadable
<1>2. QED
  BY <1>1, InitAnswerInv, NextAnswerInv, PTL DEF Spec
=============================================================================
