---------------------------- MODULE MCFlashCard ----------------------------
(***************************************************************************)
(* Layouts for FlashCard: at most two entries, one of them free in every   *)
(* field with up to two volumes, and payloads that are not a list.         *)
(***************************************************************************)
EXTENDS FlashCard

Volumes == {[dict |-> FALSE, first |-> FALSE, fs |-> FALSE]}
           \cup {[dict |-> TRUE, first |-> f, fs |-> h] : f, h \in BOOLEAN}

VolumeLists == {<<>>} \cup {<<v>> : v \in Volumes} \cup {<<v, w>> : v, w \in Volumes}

Described1 ==
    [dict : {TRUE}, ours : {TRUE}, shape : BOOLEAN, content : Content,
     lists : BOOLEAN, volumes : VolumeLists]

Beside ==
    {[dict |-> FALSE, ours |-> FALSE, shape |-> FALSE, content |-> "none",
      lists |-> TRUE, volumes |-> <<>>]}
    \cup [dict : {TRUE}, ours : BOOLEAN, shape : {TRUE}, content : {"scheme", "filesystem"},
          lists : {TRUE},
          volumes : {<<>>, <<[dict |-> TRUE, first |-> FALSE, fs |-> TRUE]>>}]

MCLayouts ==
    {[list |-> l, entries |-> <<>>] : l \in BOOLEAN}
    \cup {[list |-> TRUE, entries |-> <<e>>] : e \in Described1 \cup Beside}
    \cup {[list |-> TRUE, entries |-> <<e, b>>] : e \in Described1, b \in Beside}
    \cup {[list |-> TRUE, entries |-> <<b, e>>] : e \in Described1, b \in Beside}
=============================================================================
