---------------------------- MODULE MCEventStream ----------------------------
(***************************************************************************)
(* Answers of up to three blocks, good and bad, the last with or without   *)
(* its blank line.                                                         *)
(***************************************************************************)
EXTENDS EventStream

Blank   == [field |-> "blank"]
Comment == [field |-> "comment"]
Other(size) == [field |-> "other", size |-> size]
Event(name) == [field |-> "event", size |-> 1, name |-> name]
Data(text, id, n) ==
    [field |-> "data", size |-> 1,
     data |-> [text |-> text,
               execution_id |-> IF id = Absent THEN Absent ELSE [form |-> "text", value |-> id],
               sequence |-> IF n = Absent THEN Absent ELSE n]]
Number(n) == [form |-> "number", value |-> n]
Word == [form |-> "word"]

Good ==
    { <<Event("status"), Data("object", "x", Number(1)), Blank>>,
      <<Comment, Event("chunk"), Data("object", "x", Number(2)), Blank>>,
      <<Event("done"), Data("object", Absent, Number(2)), Blank>>,
      <<Data("head", "x", Number(3)), Data("tail", Absent, Absent), Event("done"), Blank>>,
      <<Event("chunk"), Event("done"), Blank>>,
      <<Event("agent_done"), Data("blank", Absent, Absent), Data("object", "y", Word), Blank>>,
      <<Other(2), Blank>> }

Bad ==
    { <<Event("status"), Data("object", "x", Absent), Data("object", "x", Absent), Blank>>,
      <<Data("object", "x", Number(1)), Blank>>,
      <<Event("typo"), Data("object", "x", Absent), Blank>>,
      <<Event("status"), Data("list", Absent, Absent), Blank>> }

MCBodies ==
    LET blocks == UNION {[1..n -> Good] : n \in 0..3} \cup {<<a, b>> : a \in Bad, b \in Good}
        whole  == {FlattenSeq(b) : b \in blocks}
    IN  whole \cup {Front(b) : b \in whole \ {<<>>}}
=============================================================================
