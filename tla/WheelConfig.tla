---------------------------- MODULE WheelConfig ----------------------------
(***************************************************************************)
(* How setup_delayed_proxy (src/src/nftcp.rs) makes the timer wheel and    *)
(* the timeout of ConnectionManager from the configuration: the wheel      *)
(* counts cycles, the configuration file milliseconds.                     *)
(***************************************************************************)
EXTENDS ConnectionManager

CONSTANTS
    CyclesPerMs,    \* cpu_clock / 1000
    ResolutionMs,   \* TIMER_WHEEL_RESOLUTION_MS
    TickMs,         \* the tick generator's interval
    Established     \* timeouts.established of the configuration file, in milliseconds

(* wheel.resolution(), in cycles                                           *)
resolution == CyclesPerMs * ResolutionMs

wheel_tick_reduction_factor == resolution \div (CyclesPerMs * TickMs)

(* assert!(wheel.resolution() >= tick_generator.tick_length()); that they  *)
(* are the same is what TimerTick of ConnectionManager relies on.          *)
ASSUME TickAssumption ==
    /\ CyclesPerMs \in Nat \ {0}
    /\ TickMs \in Nat \ {0}
    /\ ResolutionMs >= TickMs
    /\ wheel_tick_reduction_factor = 1
    /\ Established \in Nat \ {0}

(* The longest timeout the wheel can hold, in cycles.                      *)
get_max_timeout_cycles == (Slots - 1) * resolution

(* The overflow check: a number of milliseconds is compared with, and      *)
(* replaced by, a number of cycles.                                        *)
CheckedEstablished ==
    IF Established > get_max_timeout_cycles THEN get_max_timeout_cycles ELSE Established

(* The timeout given to wheel.schedule, in slots of the wheel.             *)
EstablishedSlots == (CheckedEstablished * CyclesPerMs) \div resolution
=============================================================================
