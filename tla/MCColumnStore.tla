--------------------------- MODULE MCColumnStore ---------------------------
\* Model checking of opening, dropping and closing the databases of a store.
EXTENDS ColumnStore
=============================================================================
