---------------------------- MODULE DataGenerator ----------------------------
(***************************************************************************)
(* DataGenerator piped into the client: while the scraper thread (module   *)
(* Scraper) reads std::cin, another process writes it.  Each datum is a    *)
(* line, ended and flushed by operator<< of client_data, and main() ends   *)
(* another one, which is blank.  An operation drawn as NOP makes a line    *)
(* that the client must skip.  The generator may be killed at any time,    *)
(* with whole lines written: what is not flushed dies with it.             *)
(*                                                                         *)
(* When there is no generator, the input is a file or a stream of Files,   *)
(* all of it there from the beginning.                                     *)
(***************************************************************************)
EXTENDS Scraper

CONSTANT MaxData    \* bound: data_size, the data to generate

ASSUME GeneratorAssumption == MaxData \in Nat

VARIABLES
    gpc,            \* where the generator is: "datum", "endl" or "ended"
    data_size,      \* its first argument; 0 when there is no generator
    operations      \* operations[id]: the operation of the datum of that request_id

generatorVars == <<gpc, data_size, operations>>
pipeVars == <<scraperVars, generatorVars>>

Operations == {"NOP", "ADD", "SUBTRACT", "MULTIPLY", "DIVIDE"}

\* What get_datum makes of the line of a datum: "NOP" begins with no operation's char.
KindOf(operation) == IF operation = "NOP" THEN "malformed" ELSE "record"

NoInput == [lines |-> <<>>, newline |-> TRUE, stdin |-> TRUE]

PipeInit ==
    /\ ScraperInit
    /\ operations = <<>>
    /\ \/ data_size = 0 /\ gpc = "ended"
       \/ data_size \in 1..MaxData /\ gpc = "datum" /\ file = NoInput

-----------------------------------------------------------------------------
\* One more line is in the pipe.
WriteLine(kind) ==
    /\ file' = [file EXCEPT !.lines = Append(@, [kind |-> kind, long |-> FALSE])]
    /\ UNCHANGED <<next, flags, spc, queue, scraped, data_size>>

\* Mutant of PrintDatum: a NOP is written as one of the operations.
PrintDatum_NoBad(operation) ==
    /\ gpc = "datum"
    /\ Len(operations) < data_size
    /\ operations' = Append(operations, operation)
    /\ WriteLine("record")
    /\ gpc' = "endl"

\* cout << datum: the id, the operands and the operation drawn for it.
PrintDatum(operation) ==
    /\ gpc = "datum"
    /\ Len(operations) < data_size
    /\ operations' = Append(operations, operation)
    /\ WriteLine(KindOf(operation))
    /\ gpc' = "endl"

\* ... << endl, in the loop of main().
PrintEndl ==
    /\ gpc = "endl"
    /\ WriteLine("blank")
    /\ gpc' = "datum"
    /\ UNCHANGED operations

\* The loop is over; or the process is killed before that.
GeneratorEnds ==
    /\ gpc = "datum" /\ Len(operations) = data_size
    /\ gpc' = "ended"
    /\ UNCHANGED <<scraperVars, data_size, operations>>
GeneratorKilled ==
    /\ gpc # "ended"
    /\ gpc' = "ended"
    /\ UNCHANGED <<scraperVars, data_size, operations>>

GeneratorStep == (\E operation \in Operations : PrintDatum(operation)) \/ PrintEndl \/ GeneratorEnds

\* Mutant of ReaderStep: the end of what there is to read is taken for the end of file.
ReaderStep_NoWait == ScraperStep /\ UNCHANGED generatorVars

\* getline waits while the pipe is empty and somebody holds its other end.
ReaderStep ==
    /\ GetDatum \/ (gpc = "ended" /\ EndOfInput) \/ WriteDatum \/ LeaveLoop
    /\ UNCHANGED generatorVars

PipeNext ==
    \/ GeneratorStep \/ GeneratorKilled
    \/ ReaderStep
    \/ ReadError /\ UNCHANGED generatorVars

\* Both processes run.
PipeSpec ==
    /\ PipeInit /\ [][PipeNext]_pipeVars
    /\ WF_pipeVars(GeneratorStep) /\ WF_pipeVars(ReaderStep)

-----------------------------------------------------------------------------
\* The lines of the data with an operation the client can execute: request_id's line is
\* the one before its blank line.
ValidLines == {2 * id - 1 : id \in {i \in DOMAIN operations : operations[i] # "NOP"}}

\* What the client takes from the pipe are the lines of valid data, whatever bad ones are
\* in between and wherever the reader catches up with the writer; and once the thread
\* has seen the end of the pipe, it has taken every one, in order and once.
OnlyValidDataScraped == data_size > 0 => ScrapedItems \subseteq ValidLines

EveryValidDatumScraped ==
    data_size > 0
        => <>((gpc = "ended" /\ ScrapedItems = ValidLines) \/ "bad" \in flags)
=============================================================================
