------------------------- MODULE MCServerLifecycle -------------------------
EXTENDS ServerLifecycle

\* Ids are only compared with each other: which of them the first request has makes
\* no difference.
FirstIdIsLowest == request[1].id \in {0, CHOOSE i \in Ids : \A j \in Ids : i <= j}
=============================================================================
