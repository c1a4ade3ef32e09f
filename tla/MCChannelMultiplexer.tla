------------------------- MODULE MCChannelMultiplexer -------------------------
(* Instances of ChannelMultiplexer for TLC.                                 *)
EXTENDS ChannelMultiplexer, TLC

CONSTANTS a, b  \* channel ids

(* Each id is opened by one side only: a service path by the front end, and *)
(* another by the back end.                                                 *)
OneOpener == (a :> {"left"}) @@ [id \in Id \ {a} |-> {"right"}]

(* Both sides open the same id, which no service of Theia does: MayOpen <-   *)
(* TwoOpeners makes HeldIsRegistered fail.                                   *)
TwoOpeners == [id \in Id |-> Side]
=============================================================================
