--------------------------- MODULE MCHostTracker ----------------------------
(* h1 uses ARP and answers.  h2 has two addresses, never ARPs and may be     *)
(* cut off.  h3 uses ARP, does not answer, and is heard without an address  *)
(* too, so that it may stay although its address is given up.               *)
EXTENDS HostTracker

CONSTANTS h1, h2, h3, i1, i2, i3, i4

OwnedBy == [h \in {h1, h2, h3} |->
              CASE h = h1 -> {i1} [] h = h2 -> {i2, i3} [] h = h3 -> {i4}]
Habits == [h \in {h1, h2, h3} |->
             CASE h = h1 -> {"arp", "other"} [] h = h2 -> {"ip"} [] h = h3 -> {"arp", "other"}]
=============================================================================
