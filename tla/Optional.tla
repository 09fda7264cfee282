------------------------------- MODULE Optional -------------------------------
\* A value that may be missing: a nil pointer, a NULL column, an absent key.
CONSTANT Nil
===============================================================================
