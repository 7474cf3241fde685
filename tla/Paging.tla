------------------------------- MODULE Paging -------------------------------
(***************************************************************************)
(* Following metaData.nextLink (list_transactions_all and                  *)
(* list_reference_all in src/client.rs, with the checks of                 *)
(* src/transport.rs).                                                      *)
(*                                                                         *)
(* A page is known by the URL that serves it, so `out` lists the pages     *)
(* whose resources the listing has collected.  The upstream fixes which    *)
(* link each page carries (NoLink, a URL of its own, or any other URL, of  *)
(* which a link that cannot be parsed is one more) and which pages are     *)
(* stamped with an asOf; nothing else is assumed of it.  A listing may     *)
(* run again and again over what it fixed.                                 *)
(***************************************************************************)
EXTENDS Naturals, Sequences

CONSTANTS
  Url,       \* URLs a page can be served at
  First,     \* the URL the listing starts from
  Allowed,   \* URLs validate_upstream_url accepts
  NoLink,    \* nextLink absent or empty
  NoStamp,   \* asOf absent
  MaxPages   \* max_pages

ASSUME UrlAssumption == First \in Allowed /\ Allowed \subseteq Url
ASSUME NoneAssumption == NoLink \notin Url /\ NoStamp \notin Url
ASSUME BoundAssumption == MaxPages \in Nat

VARIABLES
  links,     \* external: the next link of each page
  stamped,   \* external: the pages that carry an asOf
  stage,
  url,       \* the page being requested
  out,       \* out: the pages collected
  asOf,      \* as_of: the page it was taken from
  visited,   \* visited
  pages,     \* pages
  sent,      \* history: the URLs requested by this listing, in order
  result     \* what the listing returned

upstream == <<links, stamped>>
pagingVars == <<upstream, stage, url, out, asOf, visited, pages, sent, result>>

Result == {"none", "ok", "PaginationLimit", "UnsafeUrl", "InvalidResponse", "failed"}

PagingInit ==
  /\ links \in [Allowed -> Url \cup {NoLink}] /\ stamped \in SUBSET Allowed
  /\ stage = "idle" /\ url = First /\ out = <<>> /\ asOf = NoStamp
  /\ visited = {} /\ pages = 0 /\ sent = <<>> /\ result = "none"

-----------------------------------------------------------------------------
(* The first page is requested with the caller's parameters; its URL is    *)
(* not put into `visited`.                                                 *)
List ==
  /\ stage = "idle"
  /\ stage' = "waiting" /\ url' = First /\ sent' = <<First>>
  /\ out' = <<>> /\ asOf' = NoStamp /\ visited' = {} /\ pages' = 1
  /\ result' = "none" /\ UNCHANGED upstream

(* A page arrives: its resources and its stamp are kept.                   *)
Receive ==
  /\ stage = "waiting"
  /\ out' = Append(out, url)
  /\ asOf' = IF url \in stamped THEN url ELSE asOf
  /\ UNCHANGED upstream

End(r) ==
  /\ stage' = "idle" /\ result' = r
  /\ UNCHANGED <<url, sent>>

NextLink == links[url]

LastPage ==
  /\ Receive /\ NextLink = NoLink /\ End("ok")
  /\ UNCHANGED <<visited, pages>>

\* Fault: the page that reaches the bound is refused too.
TooManyEarly == pages + 1 >= MaxPages

\* Fault: the bound counts the links followed and forgets the first page.
TooManyLate == pages > MaxPages

TooMany == pages + 1 > MaxPages

PageLimit ==
  /\ Receive /\ NextLink # NoLink /\ TooMany /\ End("PaginationLimit")
  /\ pages' = pages + 1 /\ UNCHANGED visited

(* resolve_next_link: https, the allowlisted host, no userinfo, no port.   *)
Acceptable(u) == u \in Allowed

UnsafeLink ==
  /\ Receive /\ NextLink # NoLink /\ ~TooMany /\ ~Acceptable(NextLink) /\ End("UnsafeUrl")
  /\ pages' = pages + 1 /\ UNCHANGED visited

\* Fault: the visited set is never consulted.
NeverSeen(u) == u \in {}

Seen(u) == u \in visited

LinkCycle ==
  /\ Receive /\ NextLink # NoLink /\ ~TooMany /\ Acceptable(NextLink) /\ Seen(NextLink)
  /\ End("InvalidResponse")
  /\ pages' = pages + 1 /\ UNCHANGED visited

\* Fault: the resources of the page just received are left behind.
FollowDropsPage ==
  /\ stage = "waiting" /\ UNCHANGED <<upstream, out, asOf>>
  /\ NextLink # NoLink /\ ~TooMany /\ Acceptable(NextLink) /\ ~Seen(NextLink)
  /\ url' = NextLink /\ sent' = Append(sent, NextLink)
  /\ visited' = visited \cup {NextLink} /\ pages' = pages + 1
  /\ UNCHANGED <<stage, result>>

Follow ==
  /\ Receive /\ NextLink # NoLink /\ ~TooMany /\ Acceptable(NextLink) /\ ~Seen(NextLink)
  /\ url' = NextLink /\ sent' = Append(sent, NextLink)
  /\ visited' = visited \cup {NextLink} /\ pages' = pages + 1
  /\ UNCHANGED <<stage, result>>

(* request_json fails: nothing of what was collected is returned.          *)
RequestFails ==
  /\ stage = "waiting" /\ End("failed")
  /\ UNCHANGED <<upstream, out, asOf, visited, pages>>

PagingNext ==
  \/ List \/ LastPage \/ PageLimit \/ UnsafeLink \/ LinkCycle \/ Follow
  \/ RequestFails

PagingSpec == PagingInit /\ [][PagingNext]_pagingVars

-----------------------------------------------------------------------------
TypeOK ==
  /\ links \in [Allowed -> Url \cup {NoLink}] /\ stamped \in SUBSET Allowed
  /\ stage \in {"idle", "waiting"} /\ url \in Allowed
  /\ out \in Seq(Allowed) /\ sent \in Seq(Allowed)
  /\ asOf \in Allowed \cup {NoStamp} /\ visited \in SUBSET Allowed
  /\ pages \in Nat /\ result \in Result

(* A listing sends at most max_pages requests: the bound SECURITY.md gives *)
(* for pagination, the first request included.                             *)
RequestsBounded == Len(sent) <= 1 \/ Len(sent) <= MaxPages

(* No link is followed twice, so a cycle in the links costs at most one    *)
(* request per distinct URL besides the first: the first page's own URL    *)
(* may be requested once more, as a link.                                  *)
NoLinkTwice ==
  \A i, j \in 2..Len(sent) : sent[i] = sent[j] => i = j

(* p is the chain of links from the first page to the page without one.    *)
IsChain(p) ==
  /\ Len(p) > 0 /\ p[1] = First
  /\ \A i \in 1..(Len(p) - 1) : p[i + 1] = links[p[i]]
  /\ links[p[Len(p)]] = NoLink

(* The stamp of the last stamped page of p.                                *)
IsLastStamp(a, p) ==
  \/ a = NoStamp /\ \A i \in 1..Len(p) : p[i] \notin stamped
  \/ \E i \in 1..Len(p) :
       a = p[i] /\ a \in stamped /\ \A j \in (i + 1)..Len(p) : p[j] \notin stamped

(* A listing that succeeds returns every page of the chain, once each and  *)
(* in order, and the stamp of the last page that has one: the sync         *)
(* overwrites the mirror's watermark with it, so a page left out would     *)
(* never be fetched again.                                                 *)
WholeListing ==
  result = "ok" => IsChain(out) /\ IsLastStamp(asOf, out)

(* Every error has its reason in the links the upstream gave: the limit is *)
(* reported only for a chain longer than max_pages, a cycle only for a     *)
(* chain that never ends, an unsafe URL only where the chain leaves the    *)
(* allowed URLs.  `out` holds the pages received up to the error.          *)
ErrorsJustified ==
  LET last == links[out[Len(out)]] IN
  /\ result = "PaginationLimit" => last # NoLink /\ Len(out) >= MaxPages
  /\ result = "UnsafeUrl" => last \in Url \ Allowed
  /\ result = "InvalidResponse" => \E i \in 2..Len(out) : out[i] = last
=============================================================================
