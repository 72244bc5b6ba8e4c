------------------------------- MODULE Scraper -------------------------------
(***************************************************************************)
(* The scraper thread of the client: Scraper::start() running on           *)
(* DataScraper::get_datum(), which turns the lines of the input stream     *)
(* into items of the queue it shares with the thread that talks to the     *)
(* server (module Client).                                                 *)
(*                                                                         *)
(* An item is the number of the line it was read from.  What matters of a  *)
(* line is what get_datum makes of it (its kind) and whether it fits the   *)
(* buffer handed to getline.  The state bits of the std::istream are the   *)
(* set "flags"; they are sticky, nothing in the code clears them.          *)
(***************************************************************************)
EXTENDS Naturals, Sequences

CONSTANT Files      \* the inputs: what the file (or stdin) may contain

(***************************************************************************)
(* blank     : no character before the newline                             *)
(* record    : an id, an operand, one of + - * / and an operand            *)
(* malformed : a field does not parse, or the operation is another one     *)
(*             (the NOP lines DataGenerator writes on purpose)             *)
(* truncated : the line ends right after the id or the first operand, so   *)
(*             that get_item finds the stream neither good nor failed and  *)
(*             leaves op (and what follows it) uninitialized               *)
(* A long line does not fit max_input_length; its kind is that of the part *)
(* that does.  newline: whether the last line is terminated.               *)
(* stdin: main() was given no file name, and reads std::cin.               *)
(***************************************************************************)
Kinds == {"blank", "record", "malformed", "truncated"}
Line == [kind : Kinds, long : BOOLEAN]
File == [lines : Seq(Line), newline : BOOLEAN, stdin : BOOLEAN]

\* An unterminated last line holds at least one character, and so does a long one.
ASSUME FilesAssumption ==
    \A f \in Files :
        /\ f \in File
        /\ \A n \in DOMAIN f.lines : f.lines[n].long => f.lines[n].kind # "blank"
        /\ ~f.newline => /\ f.lines # <<>>
                         /\ f.lines[Len(f.lines)].kind # "blank"

VARIABLES
    file,       \* the input of this execution, as far as it has been written
    next,       \* the number of the next line getline will extract
    flags,      \* is_.rdstate(): the state bits set so far
    spc,        \* where the thread is: "scan", "push" or "done"
    queue,      \* the Singleton safe_container::queue
    scraped     \* history: every item pushed, in order

scraperVars == <<file, next, flags, spc, queue, scraped>>

-----------------------------------------------------------------------------
\* The stream as an operand of while(...): neither failbit nor badbit.
StreamOk == flags \cap {"fail", "bad"} = {}

\* Scraper::operator bool.  It is what Client::listen asks.
ScraperGood == flags = {}

\* The state bits that getline(buffer, max_input_length) sets on line n.
LineFlags(n) ==
    IF file.lines[n].long THEN {"fail"}
    ELSE IF n = Len(file.lines) /\ ~file.newline THEN {"eof"}
    ELSE {}

\* Mutants of AfterParsing: a blank line yields an item; a bad item ends the thread.
AfterParsing_BlankItems(kind) ==
    IF kind \in {"record", "blank"} THEN {"push"} ELSE {"scan"}
AfterParsing_NoCatch(kind) ==
    IF kind = "record" THEN {"push"} ELSE IF kind = "blank" THEN {"scan"} ELSE {"done"}

(***************************************************************************)
(* Where parsing leaves the thread: holding an item to push, or back at    *)
(* the loop (bad_data_error is swallowed, a blank line is skipped).  With  *)
(* op uninitialized, the switch may or may not find an operation in it.    *)
(***************************************************************************)
AfterParsing(kind) ==
    {pc \in {"push", "scan"} : /\ kind = "record" => pc = "push"
                               /\ kind \in {"blank", "malformed"} => pc = "scan"}

-----------------------------------------------------------------------------
ScraperInit ==
    /\ file \in Files
    /\ next = 1
    /\ flags = {}
    /\ spc = "scan"
    /\ queue = <<>>
    /\ scraped = <<>>

\* The guard of the getline loop of get_datum, reached through while(is_).
CanRead == spc = "scan" /\ StreamOk /\ "eof" \notin flags

\* get_datum extracts one line and parses it; all but the stream is local.
GetDatum ==
    /\ CanRead
    /\ next <= Len(file.lines)
    /\ next' = next + 1
    /\ flags' = flags \cup LineFlags(next)
    /\ spc' \in AfterParsing(file.lines[next].kind)
    /\ UNCHANGED <<file, queue, scraped>>

\* Mutant of EndOfInput: it counts a line that is not there.
EndOfInput_Counts ==
    /\ CanRead
    /\ next > Len(file.lines)
    /\ next' = next + 1
    /\ flags' = flags \cup {"eof", "fail"}
    /\ UNCHANGED <<file, spc, queue, scraped>>

\* getline finds nothing left: it extracts no character, so it sets failbit too,
\* and get_datum throws out_of_data.
EndOfInput ==
    /\ CanRead
    /\ next > Len(file.lines)
    /\ flags' = flags \cup {"eof", "fail"}
    /\ UNCHANGED <<file, next, spc, queue, scraped>>

\* The read fails: badbit, and the runtime_error of get_datum ends the thread.
ReadError ==
    /\ CanRead
    /\ flags' = flags \cup {"bad"}
    /\ spc' = "done"
    /\ UNCHANGED <<file, next, queue, scraped>>

\* Mutants of WriteDatum: the item is pushed and still held; it is pushed in front.
WriteDatum_Held ==
    /\ spc = "push"
    /\ queue' = Append(queue, next - 1)
    /\ scraped' = Append(scraped, next - 1)
    /\ UNCHANGED <<file, next, flags, spc>>
WriteDatum_InFront ==
    /\ spc = "push"
    /\ queue' = <<next - 1>> \o queue
    /\ scraped' = Append(scraped, next - 1)
    /\ spc' = "scan"
    /\ UNCHANGED <<file, next, flags>>

\* The item held is the line extracted last.
WriteDatum ==
    /\ spc = "push"
    /\ queue' = Append(queue, next - 1)
    /\ scraped' = Append(scraped, next - 1)
    /\ spc' = "scan"
    /\ UNCHANGED <<file, next, flags>>

\* while(is_) is false.  With eofbit alone it is true, and the thread goes round
\* out_of_data for ever without a change of state.
LeaveLoop ==
    /\ spc = "scan"
    /\ ~StreamOk
    /\ spc' = "done"
    /\ UNCHANGED <<file, next, flags, queue, scraped>>

\* The steps the thread takes by itself, whatever the device below the stream does.
ScraperStep == GetDatum \/ EndOfInput \/ WriteDatum \/ LeaveLoop

ScraperNext == ScraperStep \/ ReadError

ScraperSpec ==
    ScraperInit /\ [][ScraperNext]_scraperVars /\ WF_scraperVars(ScraperStep)

-----------------------------------------------------------------------------
Items == 1..Len(file.lines)

ScraperTypeOK ==
    /\ file \in File
    /\ next \in 1..Len(file.lines) + 1
    /\ flags \subseteq {"eof", "fail", "bad"}
    /\ spc \in {"scan", "push", "done"}
    /\ queue \in Seq(Items)
    /\ scraped \in Seq(Items)

LinesOf(kind) == {n \in Items : file.lines[n].kind = kind}

ScrapedItems == {scraped[i] : i \in DOMAIN scraped}

\* The item get_datum has returned and write_datum has not pushed yet.
InHand == IF spc = "push" THEN {next - 1} ELSE {}

\* Items are pushed in the order of their lines, each once, and only once the line
\* has been read: what the client sends keeps the order of the input.
ScrapedInOrder ==
    /\ \A i, j \in DOMAIN scraped : i < j => scraped[i] < scraped[j]
    /\ \A n \in ScrapedItems : n < next /\ n \notin InHand

\* Whatever blank, malformed, truncated or oversized lines surround it, a record that
\* has been read is pushed or about to be; and no blank or malformed line ever is.
RecordsKept ==
    /\ {n \in LinesOf("record") : n < next} \subseteq ScrapedItems \cup InHand
    /\ (ScrapedItems \cup InHand) \cap (LinesOf("blank") \cup LinesOf("malformed")) = {}

\* While every line fits the buffer and no read fails, every record of the input is
\* eventually in the queue, whether or not the last line is terminated.
EveryRecordScraped ==
    (\A n \in Items : ~file.lines[n].long)
        => <>(LinesOf("record") \subseteq ScrapedItems \/ "bad" \in flags)

\* Scraper.hpp: a bad data item is ignored.  What reaches the queue is a record.
OnlyRecordsScraped == ScrapedItems \subseteq LinesOf("record")

\* Scraper.hpp: past a bad data item scraping continues.  Unless the stream is
\* corrupted, the thread does not stop while there are lines it has not read.
StopsOnlyAtEnd == spc = "done" => next > Len(file.lines) \/ "bad" \in flags
=============================================================================
