---------------------------- MODULE MCMemoryDwell ----------------------------
(***************************************************************************)
(* Small instances of MemoryDwell for TLC, with the images, commands and   *)
(* memory map of MCDwellStreams.                                           *)
(***************************************************************************)
EXTENDS MemoryDwell, MCDwellStreams

(* Tables of one entry: a stream, an enabled table that idles, and one     *)
(* that is not valid.                                                      *)
Stream  == Image(1, <<Field(1, 1)>>)
Idling  == Image(1, <<Field(1, 0)>>)
Invalid == Image(1, <<Field(3, 1)>>)

AppLoads == {Idling, Invalid}

(* What the run in which buffers can be reached finds saved, and its jams, *)
(* which give an idling table a rate and take it away.                     *)
OldSaved == {Invalid}
RateJams == {Jam(1, 1, Field(1, 1)), Jam(1, 1, NullLoadEntry)}

(* The run in which any table's buffer may be out of reach: what is saved, *)
(* loaded, jammed and signed there.                                        *)
SavedIdling  == {[Idling EXCEPT !.Signature = "default"]}
NullJams     == {Jam(1, 1, NullLoadEntry), Jam(3, 1, Field(1, 1))}
AnySignatures ==
  {[TableId |-> 2, Signature |-> "default"], [TableId |-> 3, Signature |-> "default"],
   [TableId |-> 2, Signature |-> "unterminated"]}

(* The jam of the run that asks whether jams are saved.                    *)
OneJam == {Jam(1, 1, Field(1, 1))}
=============================================================================
