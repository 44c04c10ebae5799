------------------------------ MODULE MCUploads -----------------------------
EXTENDS Uploads

=============================================================================
