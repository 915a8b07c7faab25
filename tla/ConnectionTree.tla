--------------------------- MODULE ConnectionTree ---------------------------
(***************************************************************************)
(* Folders, hosts and saved passwords (connectionTree.ts, storage.ts,      *)
(* vault.ts, ws.ts, ConnectionsPanel.vue and the dialogs), in the memory   *)
(* of every page of the PWA and in the IndexedDB they share.               *)
(*                                                                         *)
(* A tree is the function from nodes to their parents.  A page checks an   *)
(* operation against its own memory, hands it to IndexedDB and changes its *)
(* memory when the transaction is done; it reads the database only when it *)
(* starts and when it has paired.  IndexedDB runs the transactions of a    *)
(* page in the order they were created, those of two pages in any order.   *)
(* Names and the other fields of a row are left out.                       *)
(***************************************************************************)
EXTENDS Integers, FiniteSets, Sequences

CONSTANTS
    Pages,    \* tabs of the browser that show the PWA
    Folders, Hosts,
    MaxOps    \* bound: operations begun in a behaviour

Nodes == Folders \cup Hosts
Root == "root"
Gone == "gone"
None == "none"

ASSUME TreeAssumption ==
    /\ Folders \cap Hosts = {} /\ IsFiniteSet(Folders) /\ MaxOps \in Nat
    /\ {Root, Gone} \cap Nodes = {} /\ None \notin Hosts \cup Pages

VARIABLES
    par,      \* the stores "folders" and "hosts": the parent of every row
    cred,     \* the store "credentials": the page that made the key of a row
    vault,    \* meta "vault": the page that made the vault key
    page,     \* initializePwa of each page, and its activeVaultKey
    mem,      \* store.folders and store.hosts of each page
    drag,     \* draggingKeys
    ops,      \* transactions each page has created, oldest first
    sealing,  \* the host whose password a page is encrypting
    unborn,   \* nodes whose id no page has drawn yet
    begun,    \* number of operations begun
    mixed,    \* history: an operation began on a tree that was not, or did not stay, the stored one
    split     \* history: a page overwrote another page's vault

vars == <<par, cred, vault, page, mem, drag, ops, sealing, unborn, begun, mixed, split>>

Trees == [Nodes -> Folders \cup {Root, Gone}]

Empty == [n \in Nodes |-> Gone]
Off == [pc |-> "off", key |-> None]

-----------------------------------------------------------------------------
(* connectionTree.ts, on a tree m                                          *)

Rows(m) == {n \in Nodes : m[n] # Gone}

(* The folders on the way up from n, the least set that has the folder of  *)
(* n and, with a folder, its folder; a row that is missing ends the way.   *)
Above(m, n) ==
    {f \in Folders : \A S \in SUBSET Folders :
        (\A g \in S \cup {n} : m[g] \in Folders => m[g] \in S) => f \in S}

(* Where buildVisibleNodes puts n: at the root when its folder is missing. *)
ShownUnder(m, n) == IF m[n] \in Folders /\ m[m[n]] # Gone THEN m[n] ELSE Root

(* buildVisibleNodes with every folder expanded: what append() reaches.    *)
Visible(m) ==
    {n \in Rows(m) : \A S \in SUBSET Rows(m) :
        (\A k \in Rows(m) : ShownUnder(m, k) \in S \cup {Root} => k \in S) => n \in S}

(* normalizeMoveSelection: what lies in a selected folder moves with it.   *)
Normalize(sel, m) == {n \in sel : Above(m, n) \cap sel = {}}

(* Mutation: a folder is only kept out of itself.                          *)
CanMoveShallow(sel, to, m) == to \notin sel

CanMove(sel, to, m) == to # Root => ({to} \cup Above(m, to)) \cap sel = {}

(* collectFolderDescendants, and the same loop in deleteFolderTree.        *)
Below(roots, m) == {n \in Nodes : Above(m, n) \cap roots # {}}

(* What earlier visits left: any tree, without passwords or a vault yet.   *)
Init ==
    /\ par \in {m \in Trees : \A n \in Rows(m) : ShownUnder(m, n) = m[n] /\ n \in Visible(m)}
    /\ cred = [h \in Hosts |-> None] /\ vault = None
    /\ page = [p \in Pages |-> Off] /\ mem = [p \in Pages |-> Empty]
    /\ drag = [p \in Pages |-> {}] /\ ops = [p \in Pages |-> <<>>]
    /\ sealing = [p \in Pages |-> None]
    /\ unborn = Nodes \ Rows(par) /\ begun = 0 /\ mixed = FALSE /\ split = FALSE

-----------------------------------------------------------------------------
(* Starting a page: initializeVault, then listHosts                        *)

Start(p) ==
    /\ page[p].pc = "off"
    /\ page' = [page EXCEPT ![p] = IF vault = None THEN [pc |-> "minting", key |-> None]
                                   ELSE [pc |-> "hosts", key |-> vault]]
    /\ UNCHANGED <<par, cred, vault, mem, drag, ops, sealing, unborn, begun, mixed, split>>

(* Mutation: the key is used before it is stored, and never stored.        *)
MintsVaultOnly(p) ==
    /\ page[p].pc = "minting"
    /\ page' = [page EXCEPT ![p] = [pc |-> "hosts", key |-> p]]
    /\ UNCHANGED <<vault, split, par, cred, mem, drag, ops, sealing, unborn, begun, mixed>>

(* The keys are made and wrapped, and saveMeta replaces what is there.     *)
MintsVault(p) ==
    /\ page[p].pc = "minting"
    /\ vault' = p /\ split' = (split \/ vault # None)
    /\ page' = [page EXCEPT ![p] = [pc |-> "hosts", key |-> p]]
    /\ UNCHANGED <<par, cred, mem, drag, ops, sealing, unborn, begun, mixed>>

Read(p, S) == [n \in Nodes |-> IF n \in S THEN par[n] ELSE mem[p][n]]

ListHosts(p) ==
    /\ page[p].pc = "hosts"
    /\ page' = [page EXCEPT ![p].pc = "folders"]
    /\ mem' = [mem EXCEPT ![p] = Read(p, Hosts)]
    /\ UNCHANGED <<par, cred, vault, drag, ops, sealing, unborn, begun, mixed, split>>

ListFolders(p) ==
    /\ page[p].pc = "folders"
    /\ page' = [page EXCEPT ![p].pc = "ready"]
    /\ mem' = [mem EXCEPT ![p] = Read(p, Folders)]
    /\ UNCHANGED <<par, cred, vault, drag, ops, sealing, unborn, begun, mixed, split>>

(* Reloading a page, or closing it: transactions that have not committed   *)
(* are aborted.                                                            *)
Reload(p) ==
    /\ page[p].pc = "ready"
    /\ page' = [page EXCEPT ![p] = Off] /\ mem' = [mem EXCEPT ![p] = Empty]
    /\ drag' = [drag EXCEPT ![p] = {}] /\ ops' = [ops EXCEPT ![p] = <<>>]
    /\ sealing' = [sealing EXCEPT ![p] = None]
    /\ UNCHANGED <<par, cred, vault, unborn, begun, mixed, split>>

-----------------------------------------------------------------------------
(* Operations of the user.  Every one passes the checks of its dialog or   *)
(* panel on the page's memory and creates a transaction.                   *)

Busy == {p \in Pages : ops[p] # <<>> \/ sealing[p] # None}

Begin(p, op) ==
    /\ page[p].pc = "ready" /\ begun < MaxOps
    /\ begun' = begun + 1
    /\ mixed' = (mixed \/ Busy # {} \/ mem[p] # par)
    /\ ops' = [ops EXCEPT ![p] = Append(@, op)]

(* onDragStart: a selection that holds the dragged node.  There is one     *)
(* pointer for all pages.                                                  *)
DragStart(p, sel) ==
    /\ page[p].pc = "ready" /\ begun < MaxOps
    /\ \A q \in Pages : drag[q] = {}
    /\ sel # {} /\ sel \subseteq Visible(mem[p])
    /\ drag' = [drag EXCEPT ![p] = Normalize(sel, mem[p])]
    /\ UNCHANGED <<par, cred, vault, page, mem, ops, sealing, unborn, begun, mixed, split>>

DragEnd(p) ==
    /\ drag[p] # {}
    /\ drag' = [drag EXCEPT ![p] = {}]
    /\ UNCHANGED <<par, cred, vault, page, mem, ops, sealing, unborn, begun, mixed, split>>

(* onDropFolder and onDropRoot: moveConnectionNodes remembers the nodes    *)
(* dropped, moveNodes passes on those normalized once more.                *)
Drop(p, to) ==
    /\ drag[p] # {}
    /\ Begin(p, [kind |-> "move", raw |-> drag[p], to |-> to,
                 nodes |-> Normalize(drag[p], mem[p])
                               \ {h \in Hosts : mem[p][h] = Gone}])
    /\ to \in {Root} \cup (Visible(mem[p]) \cap Folders) /\ CanMove(drag[p], to, mem[p])
    /\ UNCHANGED <<par, cred, vault, page, mem, drag, sealing, unborn, split>>

(* The row as it is in memory when the dialog is submitted.                *)
Put(n, to, secret) == [kind |-> "put", node |-> n, to |-> to, secret |-> secret]

(* FolderDialog: submit() after "new folder" of a folder's menu ...        *)
CreateFolder(p, f, to) ==
    /\ f \in unborn /\ Begin(p, Put(f, to, FALSE)) /\ unborn' = unborn \ {f}
    /\ to \in {Root} \cup (Visible(mem[p]) \cap Folders)
    /\ UNCHANGED <<par, cred, vault, page, mem, drag, sealing, split>>

(* ... or after "rename": the row as it is in memory now.                  *)
RenameFolder(p, f) ==
    /\ Begin(p, Put(f, mem[p][f], FALSE)) /\ f \in Visible(mem[p])
    /\ UNCHANGED <<par, cred, vault, page, mem, drag, sealing, unborn, split>>

(* HostFormView: hostFromForm() for a new host or one being edited, with a *)
(* password or without.                                                    *)
CreateHost(p, h, to, secret) ==
    /\ h \in unborn /\ Begin(p, Put(h, to, secret)) /\ unborn' = unborn \ {h}
    /\ to \in {Root} \cup (Visible(mem[p]) \cap Folders)
    /\ UNCHANGED <<par, cred, vault, page, mem, drag, sealing, split>>

EditHost(p, h, secret) ==
    /\ Begin(p, Put(h, mem[p][h], secret)) /\ h \in Visible(mem[p])
    /\ UNCHANGED <<par, cred, vault, page, mem, drag, sealing, unborn, split>>

(* LoginDialog with "remember": no row is written, only the password.      *)
Remember(p, h) ==
    /\ page[p].pc = "ready" /\ begun < MaxOps
    /\ mem[p][h] # Gone /\ sealing[p] = None
    /\ begun' = begun + 1 /\ mixed' = (mixed \/ Busy # {} \/ mem[p] # par)
    /\ sealing' = [sealing EXCEPT ![p] = h]
    /\ UNCHANGED <<par, cred, vault, page, mem, drag, ops, unborn, split>>

DeleteHosts(p, h) ==
    /\ Begin(p, [kind |-> "erase", nodes |-> {h}]) /\ h \in Visible(mem[p])
    /\ UNCHANGED <<par, cred, vault, page, mem, drag, sealing, unborn, split>>

DeleteFolders(p, f) ==
    /\ Begin(p, [kind |-> "delete", roots |-> {f}]) /\ f \in Visible(mem[p])
    /\ UNCHANGED <<par, cred, vault, page, mem, drag, sealing, unborn, split>>

-----------------------------------------------------------------------------
(* Transactions                                                            *)

Doing(p, kind) == ops[p] # <<>> /\ Head(ops[p]).kind = kind
Done(p) == ops' = [ops EXCEPT ![p] = Tail(@)]

(* Mutation: the memory is not changed before the next start.              *)
MoveDoneStored(p) ==
    /\ Doing(p, "move")
    /\ LET op == Head(ops[p]) IN
       par' = [n \in Nodes |-> IF n \in op.nodes \cap Rows(par) THEN op.to ELSE par[n]]
    /\ Done(p) /\ drag' = [drag EXCEPT ![p] = {}]
    /\ UNCHANGED <<mem, cred, vault, page, sealing, unborn, begun, mixed, split>>

(* moveTreeNodes changes the rows that are there; moveConnectionNodes then *)
(* changes the memory, and the panel forgets what is being dragged.        *)
MoveDone(p) ==
    /\ Doing(p, "move")
    /\ LET op == Head(ops[p]) IN
       /\ par' = [n \in Nodes |-> IF n \in op.nodes \cap Rows(par) THEN op.to ELSE par[n]]
       /\ mem' = [mem EXCEPT ![p] =
                    [n \in Nodes |-> IF n \in op.raw \cap Rows(@) THEN op.to ELSE @[n]]]
    /\ Done(p) /\ drag' = [drag EXCEPT ![p] = {}]
    /\ UNCHANGED <<cred, vault, page, sealing, unborn, begun, mixed, split>>

(* put() creates the row when it has gone; the form of a host goes on to   *)
(* save its password.                                                      *)
PutDone(p) ==
    /\ Doing(p, "put")
    /\ LET op == Head(ops[p]) IN
       /\ par' = [par EXCEPT ![op.node] = op.to]
       /\ mem' = [mem EXCEPT ![p][op.node] = op.to]
       /\ sealing' = IF op.secret THEN [sealing EXCEPT ![p] = op.node] ELSE sealing
    /\ Done(p)
    /\ UNCHANGED <<cred, vault, page, drag, unborn, begun, mixed, split>>

(* saveCredentialRecord has encrypted the password and stores it.          *)
CredentialSaved(p) ==
    /\ sealing[p] # None
    /\ cred' = [cred EXCEPT ![sealing[p]] = page[p].key]
    /\ sealing' = [sealing EXCEPT ![p] = None]
    /\ UNCHANGED <<par, vault, page, mem, drag, ops, unborn, begun, mixed, split>>

(* deleteFolderTree reads both stores in one transaction ...               *)
TreeRead(p) ==
    /\ Doing(p, "delete")
    /\ LET roots == Head(ops[p]).roots IN
       ops' = [ops EXCEPT ![p] = Append(Tail(@),
                    [kind |-> "erase", nodes |-> (roots \cup Below(roots, par)) \cap Rows(par)])]
    /\ UNCHANGED <<par, cred, vault, page, mem, drag, sealing, unborn, begun, mixed, split>>

WithoutHosts(nodes) == [h \in Hosts |-> IF h \in nodes THEN None ELSE cred[h]]

(* ... and deletes in another, as deleteHosts does in one.                 *)
EraseDone(p) ==
    /\ Doing(p, "erase")
    /\ LET nodes == Head(ops[p]).nodes IN
       /\ par' = [n \in Nodes |-> IF n \in nodes THEN Gone ELSE par[n]]
       /\ mem' = [mem EXCEPT ![p] = [n \in Nodes |-> IF n \in nodes THEN Gone ELSE @[n]]]
       /\ cred' = WithoutHosts(nodes)
    /\ Done(p)
    /\ UNCHANGED <<vault, page, drag, sealing, unborn, begun, mixed, split>>

-----------------------------------------------------------------------------
StartNext(p) == Start(p) \/ MintsVault(p) \/ ListHosts(p) \/ ListFolders(p) \/ Reload(p)

UserNext(p) ==
    \/ \E sel \in SUBSET Nodes : DragStart(p, sel)
    \/ DragEnd(p)
    \/ \E to \in Folders \cup {Root} : Drop(p, to)
    \/ \E f \in Folders, to \in Folders \cup {Root} : CreateFolder(p, f, to)
    \/ \E h \in Hosts, to \in Folders \cup {Root}, secret \in BOOLEAN : CreateHost(p, h, to, secret)
    \/ \E f \in Folders : RenameFolder(p, f) \/ DeleteFolders(p, f)
    \/ \E h \in Hosts, secret \in BOOLEAN : EditHost(p, h, secret)
    \/ \E h \in Hosts : Remember(p, h) \/ DeleteHosts(p, h)

DatabaseNext(p) ==
    MoveDone(p) \/ PutDone(p) \/ CredentialSaved(p) \/ TreeRead(p) \/ EraseDone(p)

Next == \E p \in Pages : StartNext(p) \/ UserNext(p) \/ DatabaseNext(p)

Spec == Init /\ [][Next]_vars

-----------------------------------------------------------------------------
TypeOK ==
    /\ par \in Trees /\ mem \in [Pages -> Trees]
    /\ cred \in [Hosts -> Pages \cup {None}] /\ vault \in Pages \cup {None}
    /\ page \in [Pages -> [pc : {"off", "minting", "hosts", "folders", "ready"},
                           key : Pages \cup {None}]]
    /\ \A p \in Pages : page[p].pc \notin {"off", "minting"} => page[p].key # None
    /\ drag \in [Pages -> SUBSET Nodes] /\ sealing \in [Pages -> Hosts \cup {None}]
    /\ unborn \subseteq Nodes /\ begun \in 0..MaxOps /\ {mixed, split} \subseteq BOOLEAN

Acyclic(m) == \A f \in Folders : m[f] # Gone => f \notin Above(m, f)

(* No sequence of moves, edits and deletions closes a cycle of folders, in *)
(* the database or in a page's memory, as long as each began on the stored *)
(* tree with no other under way.  A cycle hides all that is in it, and a   *)
(* walk up from it never ends.                                             *)
Forest == ~mixed => Acyclic(par) /\ \A p \in Pages : page[p].pc = "ready" => Acyclic(mem[p])

(* On the same condition every row is at the root or in a folder that      *)
(* exists, also when a page is reloaded in the middle of a deletion.       *)
NoDangling == ~mixed => \A n \in Rows(par) : par[n] \in {Root} \cup Rows(par)

(* Whatever the operations did to each other, a node is hidden only by a   *)
(* cycle: what a deletion left without a folder appears at the root.       *)
OrphansShown ==
    \A p \in Pages : \A n \in Rows(mem[p]) \ Visible(mem[p]) :
        \E f \in {n} \cup Above(mem[p], n) : f \in Above(mem[p], f)

(* The connections a user saved can all be found in the tree.              *)
TreeKept == Forest /\ NoDangling /\ OrphansShown

(* A saved password belongs to a host that exists.                         *)
CredentialsOwned == ~mixed => \A h \in Hosts : cred[h] # None => par[h] # Gone

(* Every saved password can be decrypted after a restart, unless two pages *)
(* made a vault at once.                                                   *)
CredentialsReadable == ~split => \A h \in Hosts : cred[h] # None => cred[h] = vault

(* What is stored of passwords is of use: none is left behind by a deleted *)
(* host or sealed with a key that is gone.                                 *)
CredentialsKept == CredentialsOwned /\ CredentialsReadable

(* An operation that began on the stored tree, with no other under way,    *)
(* leaves the page with the stored tree when it ends: what moves in memory *)
(* is what was moved there, though a drag is older than the operation.     *)
MemoryFollows ==
    [][\A p \in Pages :
          ~mixed /\ Len(ops'[p]) < Len(ops[p]) /\ page'[p].pc = "ready"
              => mem'[p] = par']_vars
=============================================================================
