---------------------------- MODULE HeaderFields ----------------------------
(***************************************************************************)
(* Which field of a request a header line is taken for.  A name is the     *)
(* sequence of its words between hyphens.  strncasecmp(header, "Field",    *)
(* header_type_len) compares only as many characters as the received name  *)
(* has, so that a name matches every field it is a prefix of, and the      *)
(* first one in the order of the if-chain is taken.                        *)
(***************************************************************************)
EXTENDS Integers, Sequences, SequencesExt

GetFields == << <<"Connection">>, <<"Content", "Length">>, <<"Cookie">>,
                <<"If", "Modified", "Since">>, <<"Accept", "Language">>,
                <<"Accept">>, <<"Accept", "Charset">>,
                <<"Accept", "Encoding">>, <<"User", "Agent">>,
                <<"Authorization">> >>
PostFields == << <<"Authorization">>, <<"Content", "Length">>, <<"Accept">>,
                 <<"Accept", "Encoding">>, <<"User", "Agent">>,
                 <<"Content", "Type">>, <<"Content", "Disposition">> >>

\* Mutant: the last field that matches is taken.
LastField(fields, name) ==
    LET i == SelectLastInSeq(fields, LAMBDA f : IsPrefix(name, f))
    IN  IF i = 0 THEN <<"ignored">> ELSE fields[i]
Field(fields, name) ==
    LET i == SelectInSeq(fields, LAMBDA f : IsPrefix(name, f))
    IN  IF i = 0 THEN <<"ignored">> ELSE fields[i]
=============================================================================
