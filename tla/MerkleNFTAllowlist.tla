------------------------- MODULE MerkleNFTAllowlist -------------------------
(***************************************************************************)
(* solidity/contracts/MerkleNFTAllowlist.sol with the tools that make its  *)
(* allowlist: go/merkle, the merkletreejs of its tests and                 *)
(* scripts/merkle-gen.js.                                                  *)
(*                                                                         *)
(* _safeMint calls the receiver after each token of a mint.  Until that    *)
(* call returns anyone may call the contract (the receiver may go through  *)
(* other contracts, the owner's too), and if it fails the whole mint is    *)
(* reverted.  A mint under way is a frame; between transactions there is   *)
(* none.  A call whose require fails is reverted and is no step.           *)
(***************************************************************************)
EXTENDS Merkle, FiniteSets

CONSTANTS
    Accounts,           \* addresses
    Callers,            \* those that call the contract and receive tokens
    AllowLists,         \* the lists of addresses the owner may publish
    MAX_SUPPLY, WL_PRICE, PUBLIC_PRICE, MAX_PER_WL, MAX_PER_PUBLIC,
    MaxProof            \* bound: length of the proofs that no tool made

ASSUME NFTAssumption ==
    /\ IsFiniteSet(Accounts)
    /\ Callers \subseteq Accounts
    /\ AllowLists \subseteq Seq(Accounts) \ {<<>>}
    /\ {MAX_SUPPLY, WL_PRICE, PUBLIC_PRICE, MAX_PER_WL, MAX_PER_PUBLIC}
          \subseteq Nat \ {0}
    /\ MaxProof \in Nat

VARIABLES
    s,          \* the contract's storage
    frames      \* the mints under way, the innermost last

vars == <<s, frames>>

\* The storage, the ether the owner has drawn, and the published list: the
\* addresses and the tool the owner took the root from.
Init ==
    /\ s = [totalSupply |-> 0, wlMintActive |-> FALSE, publicMintActive |-> FALSE,
            merkleRoot |-> [zero |-> 0],
            wlMintedCount |-> [a \in Callers |-> 0],
            publicMintedCount |-> [a \in Callers |-> 0],
            ownerOf |-> <<>>, balance |-> 0,
            withdrawn |-> 0, list |-> <<>>, tool |-> "none", everListed |-> {}]
    /\ frames = <<>>

-----------------------------------------------------------------------------
(* Leaves, roots and proofs *)

\* keccak256 of an address and MAX_PER_WL, packed or padded to 32 bytes.
LeafOf(encoding, a) == [leaf |-> <<encoding, a>>]

\* Mutant: abi.encode in the place of abi.encodePacked.
LeafPadded(a) == LeafOf("padded", a)

\* The leaf that wlMint computes.
Leaf(a) == LeafOf("packed", a)

LeavesOf(encoding, list) == [k \in DOMAIN list |-> LeafOf(encoding, list[k])]

Tools == {"go", "test", "script"}

\* The root and the proofs each tool gives for a list.
RootBy(tool, list) ==
    CASE tool = "go"     -> BuildMerkleTree(LeavesOf("packed", list))
      [] tool = "test"   -> getHexRoot(LeavesOf("packed", list))
      [] tool = "script" -> getHexRoot(LeavesOf("padded", list))

ProofBy(tool, list, a) ==
    CASE tool = "go"     -> GetProof(LeavesOf("packed", list), LeafOf("packed", a))
      [] tool = "test"   -> getHexProof(LeavesOf("packed", list), LeafOf("packed", a))
      [] tool = "script" -> getHexProof(LeavesOf("padded", list), LeafOf("padded", a))

\* Every proof a tool gives.
ToolProofs ==
    UNION {{ProofBy(tool, list, a) : a \in Range(list)} :
              tool \in Tools, list \in AllowLists}

\* Every digest in the trees of the tools.
Digests ==
    LET js(ls) == UNION {Range(level) : level \in Range(LevelsBy(ls, AbovePromoted))}
    IN  UNION {Nodes(LeavesOf(encoding, list)) \cup js(LeavesOf(encoding, list)) :
                  encoding \in {"packed", "padded"}, list \in AllowLists}

\* What a caller may pass as a proof.
Proofs == ToolProofs \cup UNION {[1 .. n -> Digests] : n \in 0 .. MaxProof}

-----------------------------------------------------------------------------
(* Minting *)

\* Mutant: the modifier is missing.
NonReentrantOff == TRUE

\* The nonReentrant modifier.
nonReentrant == frames = <<>>

\* Mutant: the supply and the limits are not to be reached but passed.
MayMintOneMore(active, quantity, minted, limit) ==
    /\ active
    /\ quantity > 0
    /\ s.totalSupply + quantity <= MAX_SUPPLY + 1
    /\ minted + quantity <= limit + 1

\* The requires that both mints share.
MayMint(active, quantity, minted, limit) ==
    /\ active
    /\ quantity > 0
    /\ s.totalSupply + quantity <= MAX_SUPPLY
    /\ minted + quantity <= limit

\* The id of the frame's next token.
TokenId(st, frame) == st.totalSupply - frame.quantity + frame.i + 1

\* _owners with token id given to a.
Given(ownerOf, id, a) ==
    [k \in DOMAIN ownerOf \cup {id} |-> IF k = id THEN a ELSE ownerOf[k]]

\* _safeMint up to the call of the receiver, within the mints called outer; a
\* token that exists reverts the frame's mint.
SafeMint(st, frame, outer) ==
    LET id == TokenId(st, frame)
    IN  IF id \in DOMAIN st.ownerOf
        THEN s' = frame.saved /\ frames' = outer
        ELSE /\ s' = [st EXCEPT !.ownerOf = Given(@, id, frame.to)]
             /\ frames' = Append(outer, [frame EXCEPT !.i = @ + 1])

\* The effects of a mint and its first token.
StartMint(a, quantity, st) ==
    SafeMint([st EXCEPT !.totalSupply = @ + quantity],
             [to |-> a, quantity |-> quantity, i |-> 0, saved |-> s], frames)

\* Mutant: the proof is not checked.
WlMintUnchecked(a, quantity, proof) ==
    /\ nonReentrant
    /\ MayMint(s.wlMintActive, quantity, s.wlMintedCount[a], MAX_PER_WL)
    /\ StartMint(a, quantity,
                 [s EXCEPT !.wlMintedCount[a] = @ + quantity,
                           !.balance = @ + WL_PRICE * quantity])

wlMint(a, quantity, proof) ==
    /\ nonReentrant
    /\ MayMint(s.wlMintActive, quantity, s.wlMintedCount[a], MAX_PER_WL)
    /\ VerifyMerkleProof(proof, s.merkleRoot, Leaf(a))
    /\ StartMint(a, quantity,
                 [s EXCEPT !.wlMintedCount[a] = @ + quantity,
                           !.balance = @ + WL_PRICE * quantity])

publicMint(a, quantity) ==
    /\ nonReentrant
    /\ MayMint(s.publicMintActive, quantity, s.publicMintedCount[a], MAX_PER_PUBLIC)
    /\ StartMint(a, quantity,
                 [s EXCEPT !.publicMintedCount[a] = @ + quantity,
                           !.balance = @ + PUBLIC_PRICE * quantity])

\* The receiver returns: the loop goes on, or the mint is complete.
ReceiverReturns ==
    /\ frames # <<>>
    /\ LET frame == Last(frames)
       IN  IF frame.i < frame.quantity THEN SafeMint(s, frame, Front(frames))
           ELSE UNCHANGED s /\ frames' = Front(frames)

\* The receiver fails: the mint and all that was done during it is undone.
ReceiverFails ==
    /\ frames # <<>>
    /\ s' = Last(frames).saved
    /\ frames' = Front(frames)

-----------------------------------------------------------------------------
(* The owner's calls *)

setMerkleRoot(tool, list) ==
    /\ s' = [s EXCEPT !.merkleRoot = RootBy(tool, list), !.list = list, !.tool = tool,
                      !.everListed = @ \cup Range(list)]
    /\ UNCHANGED frames

toggleWlMint ==
    s' = [s EXCEPT !.wlMintActive = ~@] /\ UNCHANGED frames

togglePublicMint ==
    s' = [s EXCEPT !.publicMintActive = ~@] /\ UNCHANGED frames

withdraw ==
    /\ s' = [s EXCEPT !.balance = 0, !.withdrawn = @ + s.balance]
    /\ UNCHANGED frames

Next ==
    \/ \E a \in Callers, quantity \in 1 .. MAX_SUPPLY :
          \/ publicMint(a, quantity)
          \/ \E proof \in Proofs : wlMint(a, quantity, proof)
    \/ ReceiverReturns \/ ReceiverFails
    \/ \E tool \in Tools, list \in AllowLists : setMerkleRoot(tool, list)
    \/ toggleWlMint \/ togglePublicMint \/ withdraw

Spec == Init /\ [][Next]_vars

-----------------------------------------------------------------------------
(* Properties *)

\* Whatever receivers do while they are called, the tokens are 1, 2, 3, ... up to
\* the total supply, but for those a mint under way has still to deliver.
IdsContiguous ==
    LET pending == IF frames = <<>> THEN 0
                   ELSE Last(frames).quantity - Last(frames).i
    IN  DOMAIN s.ownerOf = 1 .. s.totalSupply - pending

SumOf(f) == FoldFunction(+, 0, f)

\* Every token of the supply is counted against one account's limit and paid
\* for at its price, withdrawals and reverted mints included; neither the supply
\* nor an account exceeds its limit.
SupplyPaidFor ==
    LET wl     == SumOf(s.wlMintedCount)
        public == SumOf(s.publicMintedCount)
    IN  /\ s.totalSupply = wl + public
        /\ s.totalSupply <= MAX_SUPPLY
        /\ \A a \in Callers : /\ s.wlMintedCount[a] <= MAX_PER_WL
                              /\ s.publicMintedCount[a] <= MAX_PER_PUBLIC
        /\ s.balance + s.withdrawn = WL_PRICE * wl + PUBLIC_PRICE * public

\* Only accounts of a published list have minted at the allowlist price.
OnlyListedMint == \A a \in Callers : s.wlMintedCount[a] > 0 => a \in s.everListed

Admitted == {a \in Callers : \E proof \in Proofs :
                VerifyMerkleProof(proof, s.merkleRoot, Leaf(a))}

\* The root of go/merkle and that of the tests admit the published list and no
\* one else, whatever the caller passes as a proof, though the two tools build
\* different trees for an odd list.
RootAdmitsList ==
    s.tool \in {"go", "test"} => Admitted = Range(s.list) \cap Callers

\* So does the root that scripts/merkle-gen.js prints, which README.md offers for
\* setMerkleRoot.  It does not hold: the script's leaves are padded.
ScriptRootAdmitsList ==
    s.tool = "script" => Admitted = Range(s.list) \cap Callers
=============================================================================
