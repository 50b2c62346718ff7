----------------------------- MODULE MCDashboard -----------------------------
(* Two connections, two slots, two engines, one drive to erase and one  *)
(* that holds the system; the dashboard runs in a terminal.                  *)
EXTENDS Dashboard

TwoConns   == {"a", "b"}
TwoDrives  == {"sda", "loop0"}
Loop0      == {"loop0"}
=============================================================================
