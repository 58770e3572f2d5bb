--------------------------- MODULE MCDocumentUpload ---------------------------
(* Instances of DocumentUpload for TLC. *)
EXTENDS DocumentUpload, TLC

\* A small PDF; in the last instance also one above the limit of an ordinary
\* form, one above the cap on PDFs, and one above that of the posting forms.
SmallFiles == {4096}

AllSizes == {0, 4096, 2 * 1048576, 21 * 1048576, 23 * 1048576}

Symmetry == Permutations(Upload) \cup Permutations(Id)
==============================================================================
