--------------------------- MODULE CollectionLimits ---------------------------
(***************************************************************************)
(* What is configured of the collections: the devices and their sites, the *)
(* retries of a failure and the limits of production collections at once.  *)
(***************************************************************************)
EXTENDS Integers

CONSTANTS
  Devices,        \* rows of the devices table
  Site,           \* Site[d]: the site of a device; a device without one has its own
  Retries,        \* retries of a failed collection (3 in the code)
  Limit,          \* the global limit of concurrent collections
  SiteLimit       \* the limit per site (2 in the code)

ASSUME LedgerAssumption ==
  /\ Retries \in Nat /\ Limit \in Nat /\ SiteLimit \in Nat
  /\ DOMAIN Site = Devices
===============================================================================
