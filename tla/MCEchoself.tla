----------------------------- MODULE MCEchoself -----------------------------
(* Constants of Echoself for TLC.                                          *)
EXTENDS Echoself

CONSTANTS c1, c2

(* One host goroutine: Start and Stop are called one at a time.            *)
MCOneCaller == {c1}

(* Two host goroutines calling Start concurrently.                         *)
MCTwoCallers == {c1, c2}

=============================================================================
