------------------------------- MODULE Frontends -------------------------------
(* The bridges of litedram/frontend, one of them in a behaviour, each with a   *)
(* native port in front of the memory and a user that knows what its reads may *)
(* return.                                                                     *)
EXTENDS Wishbone, Avalon, Axi, Bist

CONSTANT Kinds              \* the bridges that are exercised

-----------------------------------------------------------------------------
Init ==
    /\ kind \in Kinds
    /\ \/ kind = "down" /\ DownUserInit
       \/ kind = "up" /\ UpUserInit
       \/ kind = "cdc" /\ CdcInit
       \/ kind = "wishbone" /\ WbUserInit
       \/ kind = "wishbone wide" /\ WbWideInit
       \/ kind = "wishbone burst" /\ WbBurstInit
       \/ kind = "wishbone slave" /\ SlaveInit
       \/ kind = "avalon" /\ AvUserInit
       \/ kind = "axi" /\ AxiUserInit(FALSE, 1 .. 2)
       \/ kind = "axi rmw" /\ AxiUserInit(TRUE, {1})
       \/ kind = "axi rmw bursts" /\ AxiUserInit(TRUE, 1 .. 2)
       \/ kind = "dma" /\ DmaUserInit
       \/ kind = "bist" /\ BistUserInit(FALSE, FALSE)
       \/ kind = "bist pattern" /\ BistUserInit(TRUE, FALSE)
       \/ kind = "bist cdc" /\ BistUserInit(FALSE, TRUE)
       \/ kind = "ecc" /\ EccUserInit

(* A clock edge of the bridge and of the port it is on; go is run_cascade_in   *)
(* of the BIST.                                                                *)
Goes == IF kind \in {"bist", "bist pattern", "bist cdc"} THEN BOOLEAN ELSE {TRUE}
Clock(e, go) ==
    /\ \/ kind = "down" /\ DownUserTick(e)
       \/ kind = "up" /\ UpUserTick(e)
       \/ kind = "cdc" /\ CdcPortTick(e)
       \/ kind = "wishbone" /\ WbUserTick(e)
       \/ kind = "wishbone wide" /\ WbWideTick(e)
       \/ kind = "wishbone burst" /\ WbBurstTick(e)
       \/ kind = "wishbone slave" /\ SlaveTick(e)
       \/ kind = "avalon" /\ AvUserTick(e)
       \/ kind \in {"axi", "axi rmw", "axi rmw bursts"} /\ AxiUserTick(e)
       \/ kind = "dma" /\ DmaUserTick(e)
       \/ kind \in {"bist", "bist pattern"} /\ BistTick(e, go)
       \/ kind = "bist cdc" /\ BistCdcCoreTick(e, go)
       \/ kind = "ecc" /\ EccUserTick(e)
    /\ UNCHANGED kind
(* A clock edge of a user in another clock domain. *)
UserClock ==
    /\ \/ kind = "cdc" /\ CdcUserTick
       \/ kind = "bist cdc" /\ BistCdcUserTick
    /\ UNCHANGED kind
(* What happens to the memory by itself. *)
Fault ==
    /\ \/ kind \in {"bist", "bist pattern", "bist cdc"} /\ Disturb
       \/ kind = "ecc" /\ EccFlip
    /\ UNCHANGED kind

PortClock == \E e \in PortInputs, go \in Goes : Clock(e, go)
Next == \/ PortClock
        \/ UserClock
        \/ Fault

(* Fairness: the controller goes on, and its clock with it: it accepts a       *)
(* command that is held, performs what it accepted and returns what it read,   *)
(* which is what controller_live shows of it.  The user's clock runs too, and  *)
(* run_cascade_in is not held low for ever.                                    *)
Accepts == \E e \in PortInputs : e.ready /\ Clock(e, TRUE)
Performs == \E e \in PortInputs : e.do /\ Clock(e, TRUE)
Returns == \E e \in PortInputs : e.ret /\ Clock(e, TRUE)
Fairness == /\ WF_frontVars(Accepts)
            /\ WF_frontVars(Performs)
            /\ WF_frontVars(Returns)
            /\ WF_frontVars(UserClock)
Spec == Init /\ [][Next]_frontVars /\ Fairness

-----------------------------------------------------------------------------
(* A read returns what was written last, whatever the bridge merged, cached,   *)
(* split, reordered or buffered on the way, and answers match their requests;  *)
(* for ECC also after a flipped bit, and for the BIST the checker counts       *)
(* exactly the words that differ.                                              *)
ReadsSeeWrites == ~master.wrong

(* Whenever the controller fetches the data of a write it is there: the port   *)
(* does not wait for wdata.valid.                                              *)
WritesFindData == ~port.missed

(* Whenever the controller returns a word that was read there is room for it:  *)
(* the port does not wait for rdata.ready.                                     *)
ReadsFindRoom == ~port.dropped

(* What a user waits for. *)
Waiting ==
    CASE kind \in {"wishbone", "wishbone wide", "wishbone burst"} -> master.req # <<>>
      [] kind = "avalon" -> master.req # <<>> \/ master.expect # <<>>
      [] kind \in {"axi", "axi rmw", "axi rmw bursts"} ->
           /\ master.written # <<>> \/ master.expect # <<>>
           /\ bridge.resp_buffer = <<>> /\ bridge.r_buffer.out = <<>>
           /\ master.written # <<>> => \/ master.w = <<>> \/ master.w_on
      [] kind \in {"bist", "bist pattern", "bist cdc"} -> TRUE
      [] kind = "dma" -> master.expect # <<>>
      [] OTHER -> master.cmd # <<>> \/ master.wdata # <<>> \/ master.expect # <<>>

(* No user waits for ever: one that has a request gets an answer, or its next  *)
(* item taken, so that no handshake of a bridge hangs.                         *)
Answered == Waiting ~> (master.answered \/ ~Waiting)
=============================================================================
