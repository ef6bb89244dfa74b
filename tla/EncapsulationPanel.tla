------------------------- MODULE EncapsulationPanel -------------------------
(* What the panel of the simulator promises its user: five choices, changed  *)
(* by whole clicks.                                                          *)
EXTENDS Naturals

CONSTANT Cards            \* the layers whose cards are clicked

VARIABLES transport, direction, detail, selected, expanded

panel == <<transport, direction, detail, selected, expanded>>

Init ==
  /\ transport = "tcp" /\ direction = "encapsulation" /\ detail = "essential"
  /\ selected = 7 /\ expanded = {7}

\* Both also open one layer, the one the choice is about.
ChooseTransport ==
  /\ transport' \in {"tcp", "udp"} /\ selected' = 4 /\ expanded' = {4}
  /\ UNCHANGED <<direction, detail>>

ChooseDirection ==
  /\ \/ direction' = "encapsulation" /\ selected' = 7
     \/ direction' = "decapsulation" /\ selected' = 1
  /\ expanded' = {selected'}
  /\ UNCHANGED <<transport, detail>>

ChooseDetail == detail' \in {"essential", "complete"} /\ UNCHANGED <<transport, direction, selected, expanded>>

\* A click selects a card and opens it, or closes it if it is open.
ClickCard(layer) ==
  /\ selected' = layer
  /\ expanded' = IF layer \in expanded THEN expanded \ {layer} ELSE expanded \cup {layer}
  /\ UNCHANGED <<transport, direction, detail>>

Next == ChooseTransport \/ ChooseDirection \/ ChooseDetail \/ \E layer \in Cards : ClickCard(layer)

Spec == Init /\ [][Next]_panel
=============================================================================
