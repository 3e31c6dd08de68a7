----------------------- MODULE ConnectionStateMachine -----------------------
(***************************************************************************)
(* src/csm.zig: the states of a secure connection and the event that moves *)
(* it from one to another.  The attempt counters and the time of the last  *)
(* change are left out: nothing decides by them.                           *)
(***************************************************************************)

States == {"disconnected", "connecting", "handshaking_vcsec", "secure_vcsec",
           "handshaking_infotainment", "fully_secure"}

Domains == {"vehicle_security", "infotainment"}

(* handleEvent: an event no line names in this state leaves it alone. *)
After(state, event) ==
  CASE event = "ble_disconnected" -> "disconnected"
    [] event = "connect_requested" /\ state = "disconnected" -> "connecting"
    [] event = "ble_connected" /\ state \in {"disconnected", "connecting"} ->
         "handshaking_vcsec"
    [] event = "handshake_success_vcsec" /\ state = "handshaking_vcsec" -> "secure_vcsec"
    [] event = "handshake_failed" /\ state = "handshaking_vcsec" -> "connecting"
    [] event = "connect_requested" /\ state = "secure_vcsec" -> "handshaking_infotainment"
    [] event = "handshake_success_infotainment" /\ state = "handshaking_infotainment" ->
         "fully_secure"
    [] event = "handshake_failed" /\ state = "handshaking_infotainment" -> "secure_vcsec"
    [] event = "session_expired_infotainment" /\ state = "fully_secure" ->
         "handshaking_infotainment"
    [] event = "session_expired_vcsec" /\ state \in {"secure_vcsec",
         "handshaking_infotainment", "fully_secure"} -> "handshaking_vcsec"
    [] OTHER -> state

SuccessEvent(d) ==
  IF d = "vehicle_security" THEN "handshake_success_vcsec"
                            ELSE "handshake_success_infotainment"
============================================================================
