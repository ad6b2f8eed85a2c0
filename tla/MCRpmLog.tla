------------------------------- MODULE MCRpmLog -------------------------------
\* Instances of RpmLog: payload words that read as a length of a message, or of
\* less than the length word itself.
EXTENDS RpmLog
Long == {12}
LongOrShort == {1, 12}
===============================================================================
