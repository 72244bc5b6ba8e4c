\* Every input of up to three lines of every kind, oversized ones included; and the
\* generator, with up to three data.
CONSTANTS
    MaxLines = 3
    LineKinds = {"blank", "record", "malformed", "truncated"}
    Lengths = {TRUE, FALSE}
    Files <- MCFiles
    MaxData = 3
SPECIFICATION PipeSpec
INVARIANTS ScraperTypeOK ScrapedInOrder RecordsKept OnlyValidDataScraped
PROPERTIES EveryRecordScraped EveryValidDatumScraped
\* The thread may end, or go round out_of_data for ever.
CHECK_DEADLOCK FALSE
