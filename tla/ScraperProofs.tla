---------------------------- MODULE ScraperProofs ----------------------------
(***************************************************************************)
(* Proofs about the scraper thread, for every input: it is type correct,   *)
(* pushes in the order of the lines, and loses no record it has read.      *)
(***************************************************************************)
EXTENDS Scraper, SequenceTheorems, TLAPS

\* A thread that holds an item has read at least one line.
HeldWasRead == spc = "push" => next > 1

\* The inductive invariant.  The three parts need one another: without the type of
\* next, or with an item held before the first line, the item pushed is no line.
ScraperInv == ScraperTypeOK /\ HeldWasRead /\ ScrapedInOrder /\ RecordsKept

\* Every input is a sequence of lines, so that items are numbers of lines.
LEMMA InputIsFile ==
    ASSUME file \in File
    PROVE  /\ file.lines \in Seq(Line)
           /\ Len(file.lines) \in Nat
           /\ \A n \in Items : file.lines[n].kind \in Kinds
  <1>1. file.lines \in Seq(Line)
    BY DEF File
  <1>2. Len(file.lines) \in Nat /\ \A n \in 1..Len(file.lines) : file.lines[n] \in Line
    BY <1>1
  <1>3. \A l \in Line : l.kind \in Kinds
    BY DEF Line
  <1> QED
    BY <1>1, <1>2, <1>3 DEF Items

\* The items of a sequence that grows at its end.
LEMMA AppendedItems ==
    ASSUME NEW S, NEW s \in Seq(S), NEW x \in S
    PROVE  /\ DOMAIN Append(s, x) = 1..Len(s) + 1
           /\ \A i \in 1..Len(s) : Append(s, x)[i] = s[i]
           /\ Append(s, x)[Len(s) + 1] = x
           /\ {Append(s, x)[i] : i \in DOMAIN Append(s, x)} = {s[i] : i \in DOMAIN s} \cup {x}
  <1>1. /\ DOMAIN Append(s, x) = 1..Len(s) + 1
        /\ \A i \in 1..Len(s) : Append(s, x)[i] = s[i]
        /\ Append(s, x)[Len(s) + 1] = x
    OBVIOUS
  <1>2. DOMAIN s = 1..Len(s) /\ Len(s) \in Nat
    OBVIOUS
  <1>3. 1..Len(s) + 1 = 1..Len(s) \cup {Len(s) + 1}
    BY <1>2
  <1> QED
    BY <1>1, <1>2, <1>3

\* Where parsing may leave the thread.
LEMMA AfterParsingCases ==
    ASSUME NEW kind, NEW p \in AfterParsing(kind)
    PROVE  /\ p \in {"push", "scan"}
           /\ kind = "record" => p = "push"
           /\ kind \in {"blank", "malformed"} => p = "scan"
  BY DEF AfterParsing

\* The item pushed is the number of a line.
LEMMA HeldIsItem == ASSUME ScraperInv, WriteDatum PROVE next - 1 \in Items
  <1>1. Len(file.lines) \in Nat /\ next \in 1..Len(file.lines) + 1 /\ next > 1
    BY InputIsFile DEF WriteDatum, ScraperInv, ScraperTypeOK, HeldWasRead
  <1> QED
    BY <1>1 DEF Items

LEMMA ScraperInitInv == ScraperInit => ScraperInv
  <1> SUFFICES ASSUME ScraperInit PROVE ScraperInv
    OBVIOUS
  <1>1. file \in File /\ Len(file.lines) \in Nat
    BY InputIsFile, FilesAssumption DEF ScraperInit
  <1>2. ScraperTypeOK
    BY <1>1 DEF ScraperInit, ScraperTypeOK, Items
  <1>3. HeldWasRead /\ ScrapedInOrder
    BY DEF ScraperInit, HeldWasRead, ScrapedInOrder, ScrapedItems
  <1>4. RecordsKept
    BY DEF ScraperInit, RecordsKept, LinesOf, Items, ScrapedItems, InHand
  <1> QED
    BY <1>2, <1>3, <1>4 DEF ScraperInv

LEMMA GetDatumInv == ScraperInv /\ GetDatum => ScraperInv'
  <1> SUFFICES ASSUME ScraperInv, GetDatum PROVE ScraperInv'
    OBVIOUS
  <1> USE DEF ScraperInv
  <1>1. /\ file' = file /\ queue' = queue /\ scraped' = scraped
        /\ next' = next + 1 /\ next <= Len(file.lines)
        /\ spc = "scan"
    BY DEF GetDatum, CanRead
  <1>2. Len(file.lines) \in Nat /\ next \in 1..Len(file.lines)
    BY <1>1, InputIsFile DEF ScraperTypeOK
  <1>3. /\ spc' \in {"push", "scan"}
        /\ file.lines[next].kind = "record" => spc' = "push"
        /\ file.lines[next].kind \in {"blank", "malformed"} => spc' = "scan"
    BY AfterParsingCases DEF GetDatum
  <1>4. Items' = Items /\ ScrapedItems' = ScrapedItems
    BY <1>1 DEF Items, ScrapedItems
  <1>5. ScraperTypeOK'
    <2>1. flags' \subseteq {"eof", "fail", "bad"}
      BY DEF GetDatum, LineFlags, ScraperTypeOK
    <2> QED
      BY <1>1, <1>2, <1>3, <1>4, <2>1 DEF ScraperTypeOK
  <1>6. HeldWasRead'
    BY <1>1, <1>2 DEF HeldWasRead
  <1>7. InHand = {} /\ InHand' = IF spc' = "push" THEN {next} ELSE {}
    BY <1>1, <1>2 DEF InHand
  <1>8. ScrapedItems \subseteq Items
    BY DEF ScrapedItems, ScraperTypeOK
  <1>9. ScrapedInOrder'
    BY <1>1, <1>2, <1>4, <1>7, <1>8 DEF ScrapedInOrder, Items
  <1>10. RecordsKept'
    <2>1. \A kind : LinesOf(kind)' = LinesOf(kind)
      BY <1>1, <1>4 DEF LinesOf
    <2>2. {n \in LinesOf("record") : n < next + 1}
            \subseteq {n \in LinesOf("record") : n < next} \cup InHand'
      BY <1>2, <1>3, <1>7 DEF LinesOf, Items
    <2>3. InHand' \cap (LinesOf("blank") \cup LinesOf("malformed")) = {}
      BY <1>3, <1>7 DEF LinesOf
    <2> QED
      BY <1>1, <1>4, <1>7, <2>1, <2>2, <2>3 DEF RecordsKept
  <1> QED
    BY <1>5, <1>6, <1>9, <1>10

LEMMA WriteDatumInv == ScraperInv /\ WriteDatum => ScraperInv'
  <1> SUFFICES ASSUME ScraperInv, WriteDatum PROVE ScraperInv'
    OBVIOUS
  <1> USE DEF ScraperInv
  <1> DEFINE x == next - 1
  <1>1. /\ file' = file /\ next' = next /\ flags' = flags
        /\ queue' = Append(queue, x) /\ scraped' = Append(scraped, x)
        /\ spc = "push" /\ spc' = "scan"
    BY DEF WriteDatum
  <1>2. /\ Len(file.lines) \in Nat /\ next \in 1..Len(file.lines) + 1
        /\ x \in Items /\ x < next
    BY <1>1, InputIsFile DEF ScraperTypeOK, HeldWasRead, Items
  <1>3. Items' = Items
    BY <1>1 DEF Items
  <1>4. scraped \in Seq(Items)
    BY DEF ScraperTypeOK
  <1>5. ScraperTypeOK'
    BY <1>1, <1>2, <1>3 DEF ScraperTypeOK
  <1>6. HeldWasRead'
    BY <1>1 DEF HeldWasRead
  <1>7. ScrapedItems' = ScrapedItems \cup {x}
    <2>1. {Append(scraped, x)[i] : i \in DOMAIN Append(scraped, x)}
            = {scraped[i] : i \in DOMAIN scraped} \cup {x}
      BY <1>2, <1>4, AppendedItems
    <2> HIDE DEF x
    <2> QED
      BY <1>1, <2>1 DEF ScrapedItems
  <1>8. InHand = {x} /\ InHand' = {}
    BY <1>1 DEF InHand
  <1>9. \A n \in ScrapedItems : n \in Items /\ n < x
    <2> SUFFICES ASSUME NEW n \in ScrapedItems PROVE n \in Items /\ n < x
      OBVIOUS
    <2>1. n \in Items
      BY <1>4 DEF ScrapedItems
    <2>2. n < next /\ n # x
      BY <1>8 DEF ScrapedInOrder
    <2> QED
      BY <1>2, <2>1, <2>2 DEF Items
  <1>10. ScrapedInOrder'
    <2>1. \A i, j \in DOMAIN scraped' : i < j => scraped'[i] < scraped'[j]
      <3> SUFFICES ASSUME NEW i \in DOMAIN scraped', NEW j \in DOMAIN scraped', i < j
                   PROVE  scraped'[i] < scraped'[j]
        OBVIOUS
      <3>1. Len(scraped) \in Nat /\ DOMAIN scraped = 1..Len(scraped)
        BY <1>4
      <3>2. i \in 1..Len(scraped) /\ j \in 1..Len(scraped) + 1
        BY <1>1, <1>2, <1>4, <3>1, AppendedItems
      <3>3. scraped'[i] = scraped[i] /\ scraped[i] \in ScrapedItems
        BY <1>1, <1>2, <1>4, <3>1, <3>2, AppendedItems DEF ScrapedItems
      <3>4. CASE j = Len(scraped) + 1
        BY <1>1, <1>2, <1>4, <1>9, <3>3, <3>4, AppendedItems
      <3>5. CASE j # Len(scraped) + 1
        <4>1. j \in 1..Len(scraped)
          BY <3>1, <3>2, <3>5
        <4>2. scraped'[j] = scraped[j]
          BY <1>1, <1>2, <1>4, <4>1, AppendedItems
        <4> QED
          BY <3>1, <3>2, <3>3, <4>1, <4>2 DEF ScrapedInOrder
      <3> QED
        BY <3>4, <3>5
    <2>2. \A n \in ScrapedItems' : n < next' /\ n \notin InHand'
      BY <1>1, <1>2, <1>7, <1>8 DEF ScrapedInOrder
    <2> QED
      BY <2>1, <2>2 DEF ScrapedInOrder
  <1>11. RecordsKept'
    <2>1. \A kind : LinesOf(kind)' = LinesOf(kind)
      BY <1>1, <1>3 DEF LinesOf
    <2> QED
      BY <1>1, <1>7, <1>8, <2>1 DEF RecordsKept
  <1> QED
    BY <1>5, <1>6, <1>10, <1>11

\* The steps that only change the state of the stream and where the thread is.
LEMMA OtherStepsInv ==
    ASSUME ScraperInv, UNCHANGED <<file, next, queue, scraped>>,
           flags' \subseteq {"eof", "fail", "bad"},
           spc' = spc \/ (spc = "scan" /\ spc' = "done")
    PROVE  ScraperInv'
  <1>1. ScraperTypeOK'
    BY DEF ScraperInv, ScraperTypeOK, Items
  <1>2. HeldWasRead'
    BY DEF ScraperInv, HeldWasRead
  <1>3. /\ ScrapedItems' = ScrapedItems /\ InHand' = InHand
        /\ \A kind : LinesOf(kind)' = LinesOf(kind)
    BY DEF ScrapedItems, InHand, LinesOf, Items
  <1>4. ScrapedInOrder' /\ RecordsKept'
    BY <1>3 DEF ScraperInv, ScrapedInOrder, RecordsKept
  <1> QED
    BY <1>1, <1>2, <1>4 DEF ScraperInv

\* Every step of the thread, and every step that leaves it alone, keeps the invariant.
LEMMA ScraperNextInv == ScraperInv /\ [ScraperNext]_scraperVars => ScraperInv'
  <1> SUFFICES ASSUME ScraperInv, [ScraperNext]_scraperVars PROVE ScraperInv'
    OBVIOUS
  <1>1. CASE GetDatum
    BY <1>1, GetDatumInv
  <1>2. CASE EndOfInput
    BY <1>2, OtherStepsInv DEF EndOfInput, ScraperInv, ScraperTypeOK
  <1>3. CASE WriteDatum
    BY <1>3, WriteDatumInv
  <1>4. CASE LeaveLoop
    BY <1>4, OtherStepsInv DEF LeaveLoop, ScraperInv, ScraperTypeOK
  <1>5. CASE ReadError
    BY <1>5, OtherStepsInv DEF ReadError, CanRead, ScraperInv, ScraperTypeOK
  <1>6. CASE UNCHANGED scraperVars
    BY <1>6, OtherStepsInv DEF scraperVars, ScraperInv, ScraperTypeOK
  <1> QED
    BY <1>1, <1>2, <1>3, <1>4, <1>5, <1>6 DEF ScraperNext, ScraperStep

\* The invariant holds throughout every execution of the scraper thread.
THEOREM ScraperInvariance == ScraperSpec => []ScraperInv
  BY ScraperInitInv, ScraperNextInv, PTL DEF ScraperSpec

\* The state of the scraper thread keeps its type.
THEOREM ScraperTypeCorrect == ScraperSpec => []ScraperTypeOK
  BY ScraperInvariance, PTL DEF ScraperInv

\* Each item pushed is a line already read, pushed once, in the order of the input.
THEOREM ScraperKeepsOrder == ScraperSpec => []ScrapedInOrder
  BY ScraperInvariance, PTL DEF ScraperInv

\* Every record read is pushed or about to be; no blank or malformed line ever is.
THEOREM ScraperKeepsRecords == ScraperSpec => []RecordsKept
  BY ScraperInvariance, PTL DEF ScraperInv
=============================================================================
