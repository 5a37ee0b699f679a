----------------------------- MODULE PointStore -----------------------------
(***************************************************************************)
(* What a mutable KdTree promises its callers, whatever its stems and      *)
(* leaves look like: a multiset of entries that add, remove and            *)
(* replace_item act on.                                                    *)
(*                                                                         *)
(* An add may be refused, and only when a bucketful of stored entries      *)
(* share a coordinate; it then changes nothing.                            *)
(*                                                                         *)
(* Building a tree, anew or for an add that makes the tree too sparse, may *)
(* hide copies of an entry from remove and replace_item, but only of one   *)
(* that shares a coordinate with another entry.  Nothing else hides        *)
(* entries, and in particular no add, split or removal does.               *)
(***************************************************************************)
EXTENDS Buckets

CONSTANTS
    B,       \* the bucket size
    Sources  \* the collections of entries callers build trees from

VARIABLES
    contents,  \* the entries stored
    hidden,    \* those of them that remove and replace_item do not see
    request,   \* the call in progress, NoRequest between calls
    reply      \* what the last call returned, "none" while one is in progress

store_vars == <<contents, hidden, request, reply>>

NoRequest == [op |-> "none"]

Requests ==
    [op : {"add", "remove"}, entry : Entries] \cup
    [op : {"replace"}, entry : Entries, new_item : Items] \cup
    [op : {"construct"}, source : Sources]

Replies == {"none", "ok", "unsplittable", "not_found"}

(* At least n of b's entries have the same coordinate in some dimension. *)
ShareCoordinate(b, n) ==
    \E dim \in 0 .. K - 1 : \E v \in Coords(b, dim) :
        BucketLen(Level(b, dim, v)) >= n

(* What building a tree of the entries b may hide. *)
MayBeHidden(h, b) ==
    \A e \in Entries : /\ h[e] \in 0 .. b[e]
                       /\ h[e] > 0 => Tied(b, e)

Init ==
    /\ contents = EmptyBucket
    /\ hidden = EmptyBucket
    /\ request = NoRequest
    /\ reply = "none"

(* A tree is only built anew where there is nothing to lose. *)
Issue(r) ==
    /\ request = NoRequest
    /\ r.op = "construct" => contents = EmptyBucket
    /\ request' = r
    /\ reply' = "none"
    /\ UNCHANGED <<contents, hidden>>

Return(result) ==
    /\ request' = NoRequest
    /\ reply' = result

Add ==
    /\ request.op = "add"
    /\ contents' = With(contents, request.entry)
    /\ hidden' = hidden \/ MayBeHidden(hidden', contents')
    /\ Return("ok")

RefuseAdd ==
    /\ request.op = "add"
    /\ ShareCoordinate(contents, B)
    /\ Return("unsplittable")
    /\ UNCHANGED <<contents, hidden>>

Remove ==
    /\ request.op = "remove"
    /\ contents' = [contents EXCEPT ![request.entry] = hidden[request.entry]]
    /\ Return("ok")
    /\ UNCHANGED hidden

Seen(e) == contents[e] > hidden[e]

Replace ==
    /\ request.op = "replace"
    /\ Seen(request.entry)
    /\ contents' = Replaced(contents, request.entry, request.new_item)
    /\ Return("ok")
    /\ UNCHANGED hidden

ReplaceMissing ==
    /\ request.op = "replace"
    /\ ~Seen(request.entry)
    /\ Return("not_found")
    /\ UNCHANGED <<contents, hidden>>

Load ==
    /\ request.op = "construct"
    /\ contents' = request.source
    /\ MayBeHidden(hidden', contents')
    /\ Return("ok")

RefuseLoad ==
    /\ request.op = "construct"
    /\ ShareCoordinate(request.source, B + 1)
    /\ Return("unsplittable")
    /\ UNCHANGED <<contents, hidden>>

Next ==
    \/ \E r \in Requests : Issue(r)
    \/ Add \/ RefuseAdd
    \/ Remove
    \/ Replace \/ ReplaceMissing
    \/ Load \/ RefuseLoad

Spec == Init /\ [][Next]_store_vars
=============================================================================
