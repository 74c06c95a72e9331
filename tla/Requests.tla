-------------------------------- MODULE Requests --------------------------------
(* The requests a cache tier is asked about; the lookup manager and the shard *)
(* leases both know a request by its id only.                                 *)
CONSTANTS Reqs
===============================================================================
