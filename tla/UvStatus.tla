------------------------------ MODULE UvStatus ------------------------------
(***************************************************************************)
(* check_uv_status (src/src/utils.cpp): the exception that a status of     *)
(* libuv becomes.                                                          *)
(***************************************************************************)

\* Fault: statuses are passed on instead of being classified.
raw_uv_status(s) == IF s = "OK" THEN "ok" ELSE s

\* Fault: a lost connection is an error like any other.
check_uv_status_unsorted(s) == IF s = "OK" THEN "ok" ELSE "uv_error"

check_uv_status(s) ==
  CASE s = "OK" -> "ok"
    [] s \in {"ENOTCONN", "EBADF"} -> "socket_closed_error"
    [] s = "EAI_ADDRFAMILY" -> "address_family_not_supported_error"
    [] OTHER -> "uv_error"
=============================================================================
