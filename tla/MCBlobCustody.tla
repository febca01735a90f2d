--------------------------- MODULE MCBlobCustody ---------------------------
(***************************************************************************)
(* BlobCustody for TLC.                                                    *)
(***************************************************************************)
EXTENDS BlobCustody, TLC

\* No action tells writers, operations, blobs or encodings apart.
CustodySymmetry ==
    Permutations(Writer) \cup Permutations(Op) \cup Permutations(Blob) \cup Permutations(Encoding)
=============================================================================
