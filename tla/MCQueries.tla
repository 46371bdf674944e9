------------------------------ MODULE MCQueries ------------------------------
(* The instance of Queries that TLC checks. *)
EXTENDS Queries

\* Two pages that follow each other, one that is empty, and one that ends before
\* it begins.
MCPages == {<<1, 1>>, <<2, 3>>, <<2, 1>>, <<3, 1>>}

=============================================================================
