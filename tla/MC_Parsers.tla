------------------------------ MODULE MC_Parsers ------------------------------
(* The parsers of config.cpp's inputs in one run: ParseCpuList on lists of *)
(* up to two tokens over the CPU numbers 0..2, and the data source on      *)
(* files of up to five characters read in chunks of two, so that a file    *)
(* ends inside a chunk, on a chunk boundary, and before or after the cap.  *)
(* The two sets of inputs are a union, not a product: a state is either a  *)
(* CPU list (with a fixed query) or a query (with the empty list).        *)
EXTENDS CpuList, DataSource

CONSTANTS TextSeg, EmptySeg, NoneValue, Sp, EqSign, k, v

\* Three numbers give ascending, descending and one-element ranges.
MCNumbers == 0..2

\* Two letters, so that a key can be a proper prefix of a token ("k" and
\* "kk=v").
MCLetters == {k, v}

FixedQuery == [kind |-> "read", file |-> <<>>, max |-> 0]

ParsersInit ==
    \/ input \in Lists /\ query = FixedQuery
    \/ input = <<>> /\ query \in Queries

ParsersSpec == ParsersInit /\ [][UNCHANGED <<input, query>>]_<<input, query>>
=============================================================================
