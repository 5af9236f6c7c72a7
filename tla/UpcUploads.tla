----------------------------- MODULE UpcUploads -----------------------------
(* The uploads of one execution of UPC activity prices as DiDi sees them, and *)
(* what the execution promises about them.  How they come about is in         *)
(* UpcActivityPrice.                                                          *)
EXTENDS Naturals, FiniteSets

CONSTANTS
  MaxUploads  \* MAX_UPLOAD_ATTEMPTS

VARIABLES
  exec,    \* UpcActivityPriceExecution.status; "finished": by the result of the store
  cancel,  \* cancelRequested
  upload   \* the uploads as DiDi has them

Uploads == 1..MaxUploads
Uploading == {n \in Uploads : upload[n] = "running"}

\* DiDi never has two uploads of an execution under way, whoever dies between
\* the POST and the checkpoint, and though a worker that has lost its lease may
\* still post what it was about to.
OneUpload == Cardinality(Uploading) <= 1

\* An execution that ends by itself leaves no upload behind, not even one of
\* which it never heard: such a one is left to a human.  (For one that is being
\* stopped see StopWaits.)
Accounted == exec \in {"finished", "failed"} /\ ~ cancel => Uploading = {}
=============================================================================
