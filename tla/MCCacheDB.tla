------------------------------- MODULE MCCacheDB -------------------------------
(***************************************************************************)
(* A cache of three keys, one of which does not survive being written, and *)
(* the kinds of items that Store and parseItem tell apart.                 *)
(***************************************************************************)
EXTENDS CacheDB

Page(tag) == [code |-> 200, location |-> "", etag |-> tag]
Redirect(to) == [code |-> 301, location |-> to, etag |-> ""]

MCKey == {"k1", "k2", "tab"}
MCUnparsable == {"tab"}
MCText == {"", "-", "e1", "e2"}
MCItem == {Empty, Page("e1"), Page("e2"), Redirect(""), Redirect("-")}
===============================================================================
