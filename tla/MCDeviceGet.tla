----------------------------- MODULE MCDeviceGet -----------------------------
(***************************************************************************)
(* Requests for the model checking of DeviceGet.                           *)
(***************************************************************************)
EXTENDS DeviceGet

Get(url) == [url |-> url, auth |-> "good", malformed |-> FALSE, close |-> FALSE]

SomeRequests ==
    { Get("VPN_START"), Get("CHECKSTATUS"), [Get("VPN_STOP") EXCEPT !.close = TRUE],
      Get("GET_DEVICEINFO"), Get("unknown"),
      [Get("VPN_START") EXCEPT !.auth = "none"],
      [Get("VPN_STOP") EXCEPT !.auth = "wrong"],
      [Get("VPN_START") EXCEPT !.auth = "garbled"],
      [Get("VPN_START") EXCEPT !.malformed = TRUE] }
=============================================================================
