------------------------------- MODULE MCTools -------------------------------
(***************************************************************************)
(* Small instances of Zipjpeg, Telefig and GtkTree for TLC.                *)
(***************************************************************************)
EXTENDS Tools

\* Up to two entries, with data and names that may look like signatures, and images
\* with another one in them
Names1 == {[size |-> "1", name |-> <<"x">>], [size |-> "2", name |-> <<"P", "K">>],
           [size |-> "2", name |-> <<"x", "P">>], [size |-> "1", name |-> <<"x", "P">>]}
Entries == { [skipped |-> "P", size |-> n.size, name |-> n.name, data |-> d] : n \in Names1,
               d \in {<<>>, <<"P", "K">>, <<"x", "P">>, <<"P", "x", "FF">>,
                      <<"FF", "D8", "P", "x", "K">>} }
Inputs1 ==
  [image : {<<>>, <<"FF", "D8", "P", "K", "FF", "D9">>, <<"FF", "D8", "FF", "FF", "D9", "K">>,
            <<"FF", "D8", "FF", "D9", "P", "x", "FF", "D9">>},
   entries : {<<>>} \cup { <<e>> : e \in Entries }
               \cup { <<e, d>> : e \in Entries, d \in { d \in Entries : d.data = <<>> } },
   end : {<<>>, <<"P", "K", "central", "x", "1", "x", "x">>, <<"P", "K", "eocd">>}]
Size1 == [b \in {"FF", "D8", "D9", "P", "K", "local", "central", "eocd", "x", "1", "2"} |->
           IF b = "2" THEN 2 ELSE 1]

\* d1 is in the root, d2 there or in d1, and the files anywhere.
Trees1 == { t \in [{"d1", "d2", "f", "g", "h"} -> {"root", "d1", "d2"}] :
              t["d1"] = "root" /\ t["d2"] # "d2" }
=============================================================================
