------------------------- MODULE MCWritingWorkspace -------------------------
\* A participant, and the pads written in.
EXTENDS WritingWorkspace

CONSTANT p

\* A pad with a button and the shared one, which only its deadline closes.
EntryAndGroup == {<<p, "entry">>, Group}
=============================================================================
