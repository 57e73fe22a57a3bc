------------------------------ MODULE MCListings ------------------------------
(* Listings on a few listings, uploads and concurrent calls. *)
EXTENDS Listings, TLC

\* Calls and uploads are interchangeable; listings are not where one is a guest's.
MCSymmetry == Permutations(Call) \cup Permutations(Upload)

=============================================================================
