---------------------------- MODULE MCFilterLoading ----------------------------
(***************************************************************************)
(* Instances of FilterLoading for TLC.  The configurations vary one aspect *)
(* of a sound configuration at a time, and its name.                       *)
(***************************************************************************)
EXTENDS FilterLoading

CONSTANTS n1, n2

MCDefaultSizes == {-1, 0, 1000}
MCTexts == {"a", "b"}
MCKinesisSpellings == {"kinesis", " Kinesis "}

Stream == {"region", "endpoint", "version"}
Same(size) == [f \in SizeFields |-> size]

Sound(n) == [name |-> n, streams |-> <<Stream>>, dest |-> "kinesis", events |-> <<{"a"}>>,
             devices |-> <<>>, sizes |-> Same(0)]

Streams == {<<{}>>, <<{"other"}>>, <<Stream \ {"region"}>>, <<Stream, {}>>,
            <<Stream, Stream \cup {"role"}>>}
Dests   == {" Kinesis ", "webhook"}
Events  == {<<>>, <<Invalid>>, <<{"a"}, Invalid>>, <<{}, {"b"}>>, <<All>>}
Devices == {<<{"b"}>>, <<{}, {"a"}>>, <<Invalid>>, <<All, Invalid>>, <<Invalid, All>>,
            <<{"b"}, All>>}

MCConfigs ==
  UNION {{Sound(n)}
         \cup {[Sound(n) EXCEPT !.streams = x] : x \in Streams}
         \cup {[Sound(n) EXCEPT !.dest = x]    : x \in Dests}
         \cup {[Sound(n) EXCEPT !.events = x]  : x \in Events}
         \cup {[Sound(n) EXCEPT !.devices = x] : x \in Devices}
         \cup {[Sound(n) EXCEPT !.sizes = Same(x)] : x \in {-1, 4}} : n \in {n1, n2, NoName}}
================================================================================
