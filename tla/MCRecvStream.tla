---------------------------- MODULE MCRecvStream ----------------------------
(* An instance of PacketStream for TLC: the relations between the sizes    *)
(* are the code's, the sizes are not.                                      *)
EXTENDS PacketStream

Info(id, name, hp, x) == <<id, 1, 0, 3, name, hp, 100, 30, 0, x, 0>>

\* Ids and numbers at the ends of their ranges and of a varint's bytes, an object
\* with a name, one with a name that is no UTF-8 and one of nothing but zeros.
MCObjects ==
  {Default(ObjectInfo), Info(1, << >>, -5, 7), Info(300, <<83, 110>>, 50, 0),
   [Default(ObjectInfo) EXCEPT ![5] = <<255>>]}
    \cup {Info(n[1], << >>, n[2], -1) :
            n \in {<<1, -(Word \div 2)>>, <<127, -1>>, <<128, 127>>, <<Wide - 1, 128>>,
                   <<2, Word \div 2 - 1>>}}

MCMalformed == {<<255>>}

MCIdLists == {<< >>, <<0>>, <<1>>, <<127, 128, Wide - 1>>}

\* A packet of a header alone, one of four bytes and one of seven, which is refused.
MCSubmitted ==
  {<<S_RemoveObject, << << >> >> >>, <<S_EnterGame, <<1, 0>> >>,
   <<S_Move, << << [Default(ObjectInfo) EXCEPT ![5] = <<255>>] >> >> >>}

\* The packets that are not in the stream, too, and those too long for their header.
ASSUME AllSurvive
=============================================================================
