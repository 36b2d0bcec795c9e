----------------------------- MODULE MCConversions -----------------------------
(***************************************************************************)
(* The hires timer, the conversions of its counts, and the byte order      *)
(* conversions.  They share no variable - the clock of TimerUnits counts   *)
(* real time - so each is explored while the others rest in one initial    *)
(* state.                                                                  *)
(***************************************************************************)
EXTENDS HiresTimer, TimerUnits, Endian

MCSlices == {1, 7, 100}

TimerRests == TimerInit /\ ~timerUsed

StatsRest == now = 0

ExchangeRests ==
  /\ ~sender.known /\ receiver = sender /\ sender.uint8_t = 2 /\ ~sender.lp64
  /\ wire = "big" /\ size = 2 /\ sent = {} /\ storedBy = "nobody"

Init == TimerInit /\ ClockInit /\ ExchangeInit

Next ==
  \/ StatsRest /\ ExchangeRests /\ TimerNext /\ UNCHANGED <<statsVars, exchangeVars>>
  \/ TimerRests /\ ExchangeRests /\ ClockNext /\ UNCHANGED <<timerVars, exchangeVars>>
  \/ TimerRests /\ StatsRest /\ ExchangeNext /\ UNCHANGED <<timerVars, statsVars>>

Spec == Init /\ [][Next]_<<timerVars, statsVars, exchangeVars>>

(* The readings and the upper word of the timer, the kernel's clock and its
   charges are words, whatever sign a conversion gave them; an array of octets
   is as long as its word. *)
TypeOK == TimerTypeOK /\ ClockTypeOK /\ ExchangeTypeOK
=============================================================================
