------------------------------ MODULE PipeProofs ------------------------------
(***************************************************************************)
(* Proofs about the scraper thread at the end of a pipe, for a generator   *)
(* of any number of data: the input grows while it is read, and what is    *)
(* scraped are still lines of valid data, in order.                        *)
(***************************************************************************)
EXTENDS DataGenerator, ScraperProofs

\* What the generator has written: a line for each datum, at an odd number, and blank
\* lines, as far as it has got.
LinesWritten ==
    /\ operations \in Seq(Operations)
    /\ gpc \in {"datum", "endl", "ended"}
    /\ data_size > 0 =>
        /\ gpc = "datum" => Len(file.lines) = 2 * Len(operations)
        /\ gpc = "endl" => Len(file.lines) = 2 * Len(operations) - 1
        /\ \A n \in Items :
            \/ file.lines[n].kind = "blank"
            \/ \E id \in DOMAIN operations :
                n = 2 * id - 1 /\ file.lines[n].kind = KindOf(operations[id])
    /\ data_size = 0 => gpc = "ended"
    /\ data_size \in Nat

PipeInv == ScraperInv /\ LinesWritten

\* A line more at the end changes nothing of the lines that are there.
LEMMA PrintedLines ==
    ASSUME ScraperTypeOK, NEW kind \in Kinds, WriteLine(kind)
    PROVE  /\ file' \in File
           /\ Len(file'.lines) = Len(file.lines) + 1 /\ Len(file.lines) \in Nat
           /\ Items' = Items \cup {Len(file.lines) + 1}
           /\ \A n \in Items : file'.lines[n] = file.lines[n]
           /\ file'.lines[Len(file.lines) + 1].kind = kind
  <1>1. /\ file \in File /\ file.lines \in Seq(Line) /\ Len(file.lines) \in Nat
    BY InputIsFile DEF ScraperTypeOK
  <1> DEFINE line == [kind |-> kind, long |-> FALSE]
  <1>2. line \in Line
    BY DEF Line
  <1>3. file'.lines = Append(file.lines, line) /\ file' \in File
    BY <1>1, <1>2 DEF WriteLine, File
  <1>4. line.kind = kind
    OBVIOUS
  <1> HIDE DEF line
  <1>5. /\ Len(file'.lines) = Len(file.lines) + 1
        /\ \A n \in 1..Len(file.lines) : file'.lines[n] = file.lines[n]
        /\ file'.lines[Len(file.lines) + 1] = line
    BY <1>1, <1>2, <1>3, AppendedItems
  <1> QED
    BY <1>1, <1>3, <1>4, <1>5 DEF Items

\* The scraper thread's invariant survives the growth of its input.
LEMMA PrintInv ==
    ASSUME ScraperInv, NEW kind \in Kinds, WriteLine(kind)
    PROVE  ScraperInv'
  <1> USE DEF ScraperInv
  <1>1. UNCHANGED <<next, flags, spc, queue, scraped>>
    BY DEF WriteLine
  <1>2. /\ file' \in File /\ Len(file'.lines) = Len(file.lines) + 1
        /\ Len(file.lines) \in Nat /\ next \in 1..Len(file.lines) + 1
        /\ Items \subseteq Items' /\ Items' = Items \cup {Len(file.lines) + 1}
        /\ \A n \in Items : file'.lines[n] = file.lines[n]
    BY PrintedLines DEF ScraperTypeOK
  <1>3. ScraperTypeOK'
    <2>1. queue' \in Seq(Items') /\ scraped' \in Seq(Items')
      BY <1>1, <1>2 DEF ScraperTypeOK
    <2> QED
      BY <1>1, <1>2, <2>1 DEF ScraperTypeOK
  <1>4. HeldWasRead' /\ ScrapedItems' = ScrapedItems /\ InHand' = InHand
    BY <1>1 DEF HeldWasRead, ScrapedItems, InHand
  <1>5. ScrapedInOrder'
    BY <1>1, <1>4 DEF ScrapedInOrder
  <1>6. ScrapedItems \cup InHand \subseteq Items
    <2>1. ScrapedItems \subseteq Items
      BY DEF ScrapedItems, ScraperTypeOK
    <2>2. InHand \subseteq Items
      BY <1>2 DEF InHand, Items, HeldWasRead
    <2> QED
      BY <2>1, <2>2
  <1>7. RecordsKept'
    <2>1. \A k : \A n \in LinesOf(k)' : n \in LinesOf(k) \/ n = Len(file.lines) + 1
      BY <1>2 DEF LinesOf
    <2>2. Len(file.lines) + 1 \notin Items /\ ~(Len(file.lines) + 1 < next)
      BY <1>2 DEF Items
    <2>3. {n \in LinesOf("record")' : n < next} \subseteq {n \in LinesOf("record") : n < next}
      BY <2>1, <2>2
    <2>4. (ScrapedItems \cup InHand) \cap (LinesOf("blank")' \cup LinesOf("malformed")') = {}
      BY <1>6, <2>1, <2>2 DEF RecordsKept
    <2> QED
      BY <1>1, <1>4, <2>3, <2>4 DEF RecordsKept
  <1> QED
    BY <1>3, <1>4, <1>5, <1>7

LEMMA PrintDatumInv ==
    ASSUME PipeInv, NEW operation \in Operations, PrintDatum(operation)
    PROVE  PipeInv'
  <1> USE DEF PipeInv, LinesWritten
  <1>1. KindOf(operation) \in Kinds /\ WriteLine(KindOf(operation))
    BY DEF KindOf, Kinds, PrintDatum
  <1>2. ScraperInv'
    BY <1>1, PrintInv
  <1>3. /\ gpc = "datum" /\ gpc' = "endl" /\ data_size' = data_size
        /\ operations' = Append(operations, operation)
        /\ data_size > 0
    BY DEF PrintDatum, WriteLine
  <1>4. /\ Len(operations) \in Nat /\ Len(operations') = Len(operations) + 1
        /\ DOMAIN operations = 1..Len(operations) /\ DOMAIN operations' = 1..Len(operations) + 1
        /\ \A id \in DOMAIN operations : operations'[id] = operations[id]
        /\ operations'[Len(operations) + 1] = operation
        /\ operations' \in Seq(Operations)
    BY <1>3, AppendedItems
  <1>5. /\ Len(file.lines) = 2 * Len(operations) /\ Len(file'.lines) = Len(file.lines) + 1
        /\ Items' = Items \cup {Len(file.lines) + 1}
        /\ \A n \in Items : file'.lines[n] = file.lines[n]
        /\ file'.lines[Len(file.lines) + 1].kind = KindOf(operation)
    BY <1>1, <1>3, PrintedLines DEF ScraperInv
  <1>6. ASSUME NEW n \in Items'
        PROVE  \/ file'.lines[n].kind = "blank"
               \/ \E id \in DOMAIN operations' :
                    n = 2 * id - 1 /\ file'.lines[n].kind = KindOf(operations'[id])
    <2>1. CASE n \in Items
      <3>1. file'.lines[n] = file.lines[n]
        BY <1>5, <2>1
      <3>2. \/ file.lines[n].kind = "blank"
            \/ \E id \in DOMAIN operations :
                n = 2 * id - 1 /\ file.lines[n].kind = KindOf(operations[id])
        BY <1>3, <2>1
      <3>3. \A id \in DOMAIN operations :
                id \in DOMAIN operations' /\ operations'[id] = operations[id]
        BY <1>4
      <3> QED
        BY <3>1, <3>2, <3>3
    <2>2. CASE n = Len(file.lines) + 1
      <3>1. /\ Len(operations) + 1 \in DOMAIN operations'
            /\ n = 2 * (Len(operations) + 1) - 1
        BY <1>4, <1>5, <2>2
      <3> QED
        BY <1>4, <1>5, <2>2, <3>1
    <2> QED
      BY <1>5, <2>1, <2>2
  <1>7. Len(file'.lines) = 2 * Len(operations') - 1
    BY <1>4, <1>5
  <1> QED
    BY <1>2, <1>3, <1>4, <1>6, <1>7

LEMMA PrintEndlInv == PipeInv /\ PrintEndl => PipeInv'
  <1> SUFFICES ASSUME PipeInv, PrintEndl PROVE PipeInv'
    OBVIOUS
  <1> USE DEF PipeInv, LinesWritten
  <1>1. "blank" \in Kinds /\ WriteLine("blank")
    BY DEF Kinds, PrintEndl
  <1>2. ScraperInv'
    BY <1>1, PrintInv
  <1>3. /\ gpc = "endl" /\ gpc' = "datum" /\ data_size' = data_size /\ operations' = operations
        /\ data_size > 0
    BY DEF PrintEndl, WriteLine
  <1>4. /\ Len(operations) \in Nat
        /\ Len(file.lines) = 2 * Len(operations) - 1 /\ Len(file'.lines) = Len(file.lines) + 1
        /\ Items' = Items \cup {Len(file.lines) + 1}
        /\ \A n \in Items : file'.lines[n] = file.lines[n]
        /\ file'.lines[Len(file.lines) + 1].kind = "blank"
    BY <1>1, <1>3, PrintedLines DEF ScraperInv
  <1>5. \A n \in Items' :
            \/ file'.lines[n].kind = "blank"
            \/ \E id \in DOMAIN operations' :
                 n = 2 * id - 1 /\ file'.lines[n].kind = KindOf(operations'[id])
    <2> SUFFICES ASSUME NEW n \in Items', file'.lines[n].kind # "blank"
                 PROVE  \E id \in DOMAIN operations' :
                          n = 2 * id - 1 /\ file'.lines[n].kind = KindOf(operations'[id])
      OBVIOUS
    <2>1. n \in Items /\ file'.lines[n] = file.lines[n]
      BY <1>4
    <2> QED
      BY <1>3, <2>1
  <1> QED
    BY <1>2, <1>3, <1>4, <1>5

\* The other steps write nothing.
LEMMA NothingPrintedInv ==
    ASSUME PipeInv, file' = file, data_size' = data_size, operations' = operations,
           gpc' \in {gpc, "ended"}, ScraperInv'
    PROVE  PipeInv'
  BY DEF PipeInv, LinesWritten, Items

LEMMA PipeNextInv == PipeInv /\ [PipeNext]_pipeVars => PipeInv'
  <1> SUFFICES ASSUME PipeInv, [PipeNext]_pipeVars PROVE PipeInv'
    OBVIOUS
  <1>1. ASSUME NEW operation \in Operations, PrintDatum(operation) PROVE PipeInv'
    BY <1>1, PrintDatumInv
  <1>2. CASE PrintEndl
    BY <1>2, PrintEndlInv
  <1>3. CASE GeneratorEnds \/ GeneratorKilled
    <2>1. ScraperInv'
      BY <1>3, ScraperNextInv DEF PipeInv, GeneratorEnds, GeneratorKilled
    <2> QED
      BY <1>3, <2>1, NothingPrintedInv DEF GeneratorEnds, GeneratorKilled, scraperVars
  <1>4. CASE ScraperNext /\ UNCHANGED generatorVars
    <2>1. ScraperInv'
      BY <1>4, ScraperNextInv DEF PipeInv
    <2>2. file' = file
      BY <1>4 DEF ScraperNext, ScraperStep, GetDatum, EndOfInput, WriteDatum, LeaveLoop,
                  ReadError
    <2> QED
      BY <1>4, <2>1, <2>2, NothingPrintedInv DEF generatorVars
  <1>5. CASE UNCHANGED pipeVars
    <2>1. ScraperInv'
      BY <1>5, ScraperNextInv DEF PipeInv, pipeVars
    <2> QED
      BY <1>5, <2>1, NothingPrintedInv DEF pipeVars, scraperVars, generatorVars
  <1> QED
    BY <1>1, <1>2, <1>3, <1>4, <1>5
       DEF PipeNext, GeneratorStep, ReaderStep, ScraperNext, ScraperStep

\* The invariant holds throughout, whether the input is there or being written.
THEOREM PipeInvariance == PipeSpec => []PipeInv
  <1>1. PipeInit => PipeInv
    <2> SUFFICES ASSUME PipeInit PROVE PipeInv
      OBVIOUS
    <2>1. ScraperInv
      BY ScraperInitInv DEF PipeInit
    <2>2. data_size \in Nat /\ operations = <<>> /\ Len(operations) = 0
      BY GeneratorAssumption DEF PipeInit
    <2>3. data_size > 0 => gpc = "datum" /\ Len(file.lines) = 0 /\ Items = {}
      BY DEF PipeInit, NoInput, Items
    <2>4. gpc \in {"datum", "ended"} /\ (data_size = 0 => gpc = "ended")
      BY GeneratorAssumption DEF PipeInit
    <2> QED
      BY <2>1, <2>2, <2>3, <2>4 DEF PipeInv, LinesWritten
  <1> QED
    BY <1>1, PipeNextInv, PTL DEF PipeSpec

\* Everything scraped from the generator's output is a line of valid data.
THEOREM ValidDataOnly == PipeSpec => []OnlyValidDataScraped
  <1>1. PipeInv => OnlyValidDataScraped
    <2> SUFFICES ASSUME PipeInv, data_size > 0, NEW n \in ScrapedItems PROVE n \in ValidLines
      BY DEF OnlyValidDataScraped
    <2>1. n \in Items /\ file.lines[n].kind \notin {"blank", "malformed"}
      BY DEF PipeInv, ScraperInv, ScraperTypeOK, RecordsKept, ScrapedItems, LinesOf
    <2>2. PICK id \in DOMAIN operations :
            n = 2 * id - 1 /\ file.lines[n].kind = KindOf(operations[id])
      BY <2>1 DEF PipeInv, LinesWritten
    <2> QED
      BY <2>1, <2>2 DEF KindOf, ValidLines
  <1> QED
    BY <1>1, PipeInvariance, PTL

\* The order of the input, and the records of it, are kept while it is being written.
THEOREM PipeKeepsOrder == PipeSpec => [](ScrapedInOrder /\ RecordsKept)
  BY PipeInvariance, PTL DEF PipeInv, ScraperInv

\* The thread's variables keep their types.
THEOREM PipeTypeCorrect == PipeSpec => []ScraperTypeOK
  BY PipeInvariance, PTL DEF PipeInv, ScraperInv
=============================================================================
