----------------------------- MODULE AppcastFeed ------------------------------
(***************************************************************************)
(* The update feed: appcast.xml on main, which clients read, rebuilt from  *)
(* the published releases by scripts/sync_appcast_from_releases.py in the  *)
(* workflow update-appcast.yml, or edited by hand with                     *)
(* scripts/update_appcast_manual.py.                                       *)
(*                                                                         *)
(* Several runs of the workflow may be under way at once, and people       *)
(* publish, withdraw and repair releases and push to main meanwhile.  A    *)
(* push succeeds only on top of the commit that was checked out.           *)
(*                                                                         *)
(* An installer is named by the number of its upload; the hash of a        *)
(* sidecar is the number of the upload it was taken of, 0 if there is no   *)
(* sidecar that can be read.  The attributes of a staged rollout, which    *)
(* the script copies from the policy into the items, are left out.         *)
(***************************************************************************)
EXTENDS Naturals, FiniteSets, SequencesExt, Selection

CONSTANTS
    Releases,       \* numbered in the order of their creation
    Versions,
    VersionOf,      \* the version in the tag of each release
    Jobs,           \* runs of the workflow
    PageSize,       \* how many releases one page of the API lists
    MaxChanges      \* how often somebody changes something by hand

ASSUME FeedAssumption ==
    /\ Releases \subseteq Nat /\ IsFiniteSet(Releases)
    /\ VersionOf \in [Releases -> Versions]
    /\ PageSize \in Nat /\ MaxChanges \in Nat

VARIABLES
    now,        \* a clock for published_at and uploads
    status,     \* of each release: draft, public or prerelease
    publishedAt,
    asset,      \* of each release: [installer, sidecar]
    aged,       \* releases older than any min_publication_age_minutes
    policy,     \* appcast_policy.json on main: [blocked, held]
    feed,       \* appcast.xml on main
    head,       \* the number of commits on main
    job,        \* of each run of the workflow: [pc, event, base, policy, items]
    changes,
    missed,     \* history: the feed may have missed something (see below)
    heals       \* history: the jobs whose success would make up for it

github == <<status, publishedAt, asset, aged>>
main == <<policy, feed, head>>
vars == <<now, github, main, job, changes, missed, heals>>

Item == [version : Versions, at : Nat, hash : Nat]
NoEvent == 0                    \* a push or a manual start, not a release
NotStarted == [pc |-> "free", event |-> NoEvent, base |-> 0,
               policy |-> [blocked |-> {}, held |-> {}], items |-> <<>>]

Init ==
    /\ now = 1
    /\ status = [r \in Releases |-> "draft"]
    /\ publishedAt = [r \in Releases |-> 0]
    /\ asset = [r \in Releases |-> [installer |-> r, sidecar |-> r]]
    /\ aged = {}
    /\ policy = [blocked |-> {}, held |-> {}]
    /\ feed = <<>>
    /\ head = 0
    /\ job = [j \in Jobs |-> NotStarted]
    /\ changes = 0
    /\ missed = FALSE
    /\ heals = {}

-----------------------------------------------------------------------------
(* build_published_releases.                                                *)

(* The first page of the list, newest creation first; drafts are listed.    *)
Listed == {r \in Releases : Cardinality({q \in Releases : q > r}) < PageSize}

TooYoung(r, p) == VersionOf[r] \in p.held /\ r \notin aged

Eligible(p) ==
    {r \in Listed : /\ status[r] = "public"
                    /\ VersionOf[r] \notin p.blocked
                    /\ ~TooYoung(r, p)}

(* _select_installer_asset raises for the whole feed.                       *)
Selectable(r) == asset[r].sidecar # 0

(* Seeded fault: one item per release, not per version.                     *)
LatestOfVersionAll(S) == S
LatestOfVersion(S) ==
    {r \in S : \A q \in S : VersionOf[q] = VersionOf[r] =>
                                publishedAt[q] <= publishedAt[r]}

ItemOf(r) == [version |-> VersionOf[r], at |-> publishedAt[r], hash |-> asset[r].sidecar]

Succeeds(p) == Eligible(p) # {} /\ \A r \in Eligible(p) : Selectable(r)

(* Sorted by the date of publication, which no two releases share.          *)
Rebuilt(p) ==
    LET items == {ItemOf(r) : r \in LatestOfVersion(Eligible(p))}
        dates == Descending({i.at : i \in items})
    IN  [k \in DOMAIN dates |-> CHOOSE i \in items : i.at = dates[k]]

-----------------------------------------------------------------------------
(* What people do.                                                          *)

(* History: something changed of which no run of the workflow will be told. *)
Unannounced ==
    /\ missed' = TRUE
    /\ heals' = {}

Change ==
    /\ changes < MaxChanges
    /\ changes' = changes + 1

(* An event of the workflow queues a run.                                   *)
Trigger(event) ==
    \E j \in Jobs :
        /\ job[j].pc = "free"
        /\ job' = [job EXCEPT ![j] = [NotStarted EXCEPT !.pc = "queued", !.event = event]]

Publish(r) ==
    /\ status[r] = "draft"
    /\ status' = [status EXCEPT ![r] = "public"]
    /\ publishedAt' = [publishedAt EXCEPT ![r] = now]
    /\ now' = now + 1
    /\ \E c \in {asset[r].sidecar, 0} : asset' = [asset EXCEPT ![r].sidecar = c]
    /\ Trigger(r)
    /\ UNCHANGED <<aged, main, changes, missed, heals>>

(* A published release is edited to be a prerelease.                        *)
Withdraw(r) ==
    /\ status[r] = "public"
    /\ Change
    /\ status' = [status EXCEPT ![r] = "prerelease"]
    /\ Unannounced
    /\ UNCHANGED <<now, publishedAt, asset, aged, main, job>>

(* The installer of a public release is replaced together with its sidecar. *)
Reupload(r) ==
    /\ status[r] = "public"
    /\ Change
    /\ LET upload == Cardinality(Releases) + now
       IN asset' = [asset EXCEPT ![r] = [installer |-> upload, sidecar |-> upload]]
    /\ now' = now + 1
    /\ Unannounced
    /\ UNCHANGED <<status, publishedAt, aged, main, job>>

Ages(r) ==
    /\ status[r] = "public"
    /\ r \notin aged
    /\ aged' = aged \cup {r}
    /\ IF VersionOf[r] \in policy.held THEN Unannounced ELSE UNCHANGED <<missed, heals>>
    /\ UNCHANGED <<now, status, publishedAt, asset, main, job, changes>>

(* Seeded fault: the workflow does not watch the policy.                    *)
PushPolicyUnwatched ==
    /\ Change
    /\ \E v \in Versions : policy' = [policy EXCEPT !.blocked = SymDiff(@, {v})]
    /\ head' = head + 1
    /\ UNCHANGED <<now, github, feed, job, missed, heals>>

PushPolicy ==
    /\ Change
    /\ \E v \in Versions :
         \/ policy' = [policy EXCEPT !.blocked = SymDiff(@, {v})]
         \/ policy' = [policy EXCEPT !.held = SymDiff(@, {v})]
    /\ head' = head + 1
    /\ Trigger(NoEvent)
    /\ UNCHANGED <<now, github, feed, missed, heals>>

(* A commit that touches none of the paths the workflow watches.            *)
PushOther ==
    /\ Change
    /\ head' = head + 1
    /\ UNCHANGED <<now, github, policy, feed, job, missed, heals>>

Dispatch ==
    /\ Change
    /\ Trigger(NoEvent)
    /\ UNCHANGED <<now, github, main, missed, heals>>

(* update_appcast.  An item of another version stays where it is.           *)
WithItem(items, item) ==
    <<item>> \o Only(items, {i \in Item : i.version # item.version})

(* update_appcast_manual.py in an up-to-date clone, pushed at once: the item *)
(* goes to the front, dated today, with the hash of the installer.          *)
ManualUpdate(r) ==
    /\ status[r] = "public"
    /\ Change
    /\ feed' = WithItem(feed, [version |-> VersionOf[r], at |-> now,
                               hash |-> asset[r].installer])
    /\ now' = now + 1
    /\ head' = head + 1
    /\ Unannounced
    /\ UNCHANGED <<github, policy, job>>

-----------------------------------------------------------------------------
(* A run of the workflow.                                                   *)

Goto(j, label) == job' = [job EXCEPT ![j].pc = label]

(* A run that ends without having pushed a feed leaves things as they were. *)
Fails(j) ==
    /\ Goto(j, "failed")
    /\ Unannounced
    /\ UNCHANGED <<now, github, main, changes>>

(* Seeded fault: the commit to push onto is looked up when the run ends.    *)
CheckoutUnpinned(j) ==
    /\ job[j].pc = "queued"
    /\ job' = [job EXCEPT ![j].pc = "sync", ![j].base = head + 1,
                          ![j].policy = policy, ![j].items = feed]
    /\ UNCHANGED <<now, github, main, changes, missed, heals>>

Checkout(j) ==
    /\ job[j].pc = "queued"
    /\ job' = [job EXCEPT ![j].pc = IF job[j].event = NoEvent THEN "sync" ELSE "validate",
                          ![j].base = head, ![j].policy = policy, ![j].items = feed]
    /\ UNCHANGED <<now, github, main, changes, missed, heals>>

(* The step "Validate release assets": the names only, so that a sidecar    *)
(* that cannot be read passes.                                              *)
Validate(j) ==
    /\ job[j].pc = "validate"
    /\ Goto(j, "sync")
    /\ UNCHANGED <<now, github, main, changes, missed, heals>>

ValidateFails(j) ==
    /\ job[j].pc = "validate"
    /\ ~Selectable(job[j].event)
    /\ Fails(j)

(* sync_appcast_from_releases.py with the policy of the checkout.           *)
Sync(j) ==
    /\ job[j].pc = "sync"
    /\ Succeeds(job[j].policy)
    /\ job' = [job EXCEPT ![j].pc = "push", ![j].items = Rebuilt(job[j].policy)]
    /\ heals' = heals \cup {j}
    /\ UNCHANGED <<now, github, main, changes, missed>>

SyncFails(j) ==
    /\ job[j].pc = "sync"
    /\ ~Succeeds(job[j].policy)
    /\ Fails(j)

(* Seeded fault: the commit is rebased onto main before the push.           *)
FastForwardOrRebase(j) == head >= job[j].base

(* "Commit and push": no commit when nothing changed, no force.             *)
FastForward(j) == head = job[j].base

(* History: j saw all there is to see, and no run that saw less can still   *)
(* push.  One could, had it the same base as j and made j no commit.        *)
MakesUp(j) ==
    /\ j \in heals
    /\ \A k \in Jobs \ heals :
         job[k].pc = "push" => job[k].base # head \/ job[j].items # feed

Push(j) ==
    /\ job[j].pc = "push"
    /\ FastForward(j)
    /\ feed' = job[j].items
    /\ head' = IF feed' = feed THEN head ELSE head + 1
    /\ job' = [job EXCEPT ![j] = NotStarted]
    /\ missed' = (missed /\ ~MakesUp(j))
    /\ heals' = heals \ {j}
    /\ UNCHANGED <<now, github, policy, changes>>

PushRejected(j) ==
    /\ job[j].pc = "push"
    /\ ~FastForward(j)
    /\ Fails(j)

(* Somebody has looked at the failure.                                      *)
Clear(j) ==
    /\ job[j].pc = "failed"
    /\ job' = [job EXCEPT ![j] = NotStarted]
    /\ UNCHANGED <<now, github, main, changes, missed, heals>>

People ==
    \/ \E r \in Releases :
         Publish(r) \/ Withdraw(r) \/ Reupload(r) \/ Ages(r) \/ ManualUpdate(r)
    \/ PushPolicy \/ PushOther \/ Dispatch

Workflow ==
    \E j \in Jobs :
        \/ Checkout(j) \/ Validate(j) \/ ValidateFails(j) \/ Sync(j) \/ SyncFails(j)
        \/ Push(j) \/ PushRejected(j) \/ Clear(j)

Next == People \/ Workflow

Spec == Init /\ [][Next]_vars

-----------------------------------------------------------------------------
(* Properties.                                                              *)

TypeOK ==
    /\ now \in Nat /\ head \in Nat /\ changes \in 0 .. MaxChanges
    /\ status \in [Releases -> {"draft", "public", "prerelease"}]
    /\ publishedAt \in [Releases -> Nat]
    /\ asset \in [Releases -> [installer : Nat, sidecar : Nat]]
    /\ aged \subseteq Releases
    /\ policy \in [blocked : SUBSET Versions, held : SUBSET Versions]
    /\ feed \in Seq(Item)
    /\ job \in [Jobs -> [pc : {"free", "queued", "validate", "sync", "push", "failed"},
                         event : Releases \cup {NoEvent}, base : 0 .. head,
                         policy : [blocked : SUBSET Versions, held : SUBSET Versions],
                         items : Seq(Item)]]
    /\ missed \in BOOLEAN
    /\ heals \subseteq Jobs

Offered(items) == {items[i].version : i \in DOMAIN items}

(* What a run of the workflow puts on main honours the policy that is on    *)
(* main at that moment, and it takes away no item of a release that should  *)
(* be offered and is not held back, however long ago the run looked at the  *)
(* policy and at the releases: the push that is no fast forward is refused. *)
PushHonoursMain ==
    [][\A j \in Jobs :
         job[j].pc = "push" /\ job'[j].pc = "free" =>
             /\ Offered(feed') \cap policy.blocked = {}
             /\ \A r \in Eligible(policy) :
                  ItemOf(r) \in ToSet(feed) /\ VersionOf[r] \notin policy.held
                      => VersionOf[r] \in Offered(feed')]_vars

(* The feed has one item per version, the newest first, whoever wrote it.   *)
NewestFirst ==
    \A i, k \in DOMAIN feed :
        i < k => /\ feed[i].at > feed[k].at
                 /\ feed[i].version # feed[k].version

(* When no run is under way, no run failed and nothing was changed behind   *)
(* the workflow's back since the last rebuild, the feed is what a rebuild   *)
(* would give: events announced while other runs were under way, in         *)
(* whatever order those pushed, are not lost silently.                      *)
QuietFeedIsCurrent ==
    (\A j \in Jobs : job[j].pc = "free") /\ ~missed /\ Succeeds(policy)
        => feed = Rebuilt(policy)
=============================================================================
