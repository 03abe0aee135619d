---------------------------- MODULE MCLoginPath ----------------------------
(* One client, one or two logins at a time.                                *)
EXTENDS LoginPath
=============================================================================
