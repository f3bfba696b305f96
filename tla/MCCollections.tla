--------------------------- MODULE MCCollections ---------------------------
EXTENDS Collections

\* Sets of keys the set operations meet: none, some, and the larger part.
MCOthers == {{}, {2}, {1, 3, 4, 6, 9}}

=============================================================================
