\* An export of a table larger than one page of rows, under a higher export cap.
SPECIFICATION Spec
CONSTANTS
    Pks = {1, 2, 3}
    Values = {0, 1}
    AutoLimit = 1
    RowsMax = 2
    CsvCaps = {3}
    MaxChanges = 0
    Defs <- OneDataset
INVARIANT CsvNeverTruncated
CHECK_DEADLOCK FALSE
