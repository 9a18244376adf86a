----------------------------- MODULE MCUploadPage -----------------------------
\* Instances of UploadPage for TLC.
EXTENDS UploadPage

CONSTANTS s1, p1, p2

===============================================================================
