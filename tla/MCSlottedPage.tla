---------------------------- MODULE MCSlottedPage ----------------------------
(* SlottedPage on a page small enough to fill, fragment and refuse.        *)
EXTENDS SlottedPage

MCBytes == {0, 1, 2}
\* Lengths 1, 2 and 4, with contents that differ at every position they share.
MCRecords == {<<1>>, <<2, 1>>, <<1, 2>>, <<2, 1, 2, 1>>}
\* What a table with no columns writes: encode returns an empty record.
MCEmptyRecord == {<<>>, <<1>>}
=============================================================================
