------------------------ MODULE VirtualPaths_proofs ------------------------
(***************************************************************************)
(* TLAPS proofs about paths and mounts: that the tables of a tracer say    *)
(* what the kernel has, that calls clean up behind them and that mounts    *)
(* take effect, for any processes, calls, binds, limits and any tree.      *)
(***************************************************************************)
EXTENDS VirtualPaths, SequenceTheorems, WellFoundedInduction, TLAPS

VirtualNames == {p \in PathNames : Virtual(p)}

(* The variables, but for call, have their types.                          *)
Directories == UNION {[D -> VirtualNames] : D \in SUBSET Fds}

BindsSound ==
  /\ \A b \in binds : b.at \in VirtualNames /\ b.host \in DOMAIN Tree /\ ~IsLink(b.host)
  /\ \A b, c \in binds : b.at = c.at => b = c

Budgets == [calls : 0..MaxCalls, kills : 0..MaxKills, unfollowed : 0..MaxUnfollowed]

Entries == Fds \cup {AT_FDCWD}

Typed ==
  /\ life \in [Pids -> {"unborn", "alive", "dead"}] /\ process \in [Pids -> Pids] /\ BindsSound
  /\ cwd \in [Pids -> VirtualNames] /\ fds \in [Pids -> Directories]
  /\ kcwd \in [Pids -> Dirs] /\ kfds \in [Pids -> [Fds -> Dirs \cup {NoFile, AFile}]]
  /\ mode \in [Guarded -> {"ro", "rw"}] /\ own \in [Guarded -> {"ro", "rw"}]
  /\ temp \subseteq Pids /\ spoiled \subseteq Guarded
  /\ budget \in Budgets
  /\ remounted \in BOOLEAN
  /\ stray \in [Pids -> SUBSET Entries] /\ raced \in [Pids -> SUBSET Entries]

(* What the record of a call says, from its entry on.                      *)
Recorded(r) ==
  /\ r = [of |-> r.of, stage |-> r.stage, ok |-> r.ok, fd |-> r.fd, path |-> r.path,
          mount |-> r.mount, chmods |-> r.chmods]
  /\ r.of \in Calls /\ r.stage \in {"entered", "ran"} /\ r.ok \in BOOLEAN
  /\ r.path = [at |-> r.path.at, host |-> r.path.host] /\ r.path.at \in VirtualNames
  /\ r.of.name \in {"mount", "umount"} => r.mount.at \in VirtualNames
  /\ (r.of.name = "mount" /\ r.mount.ok) => IsDir(r.mount.host)
  /\ r.chmods \subseteq Guarded
  /\ r.ok => r.stage = "ran" /\ (r.of.name \in {"open", "dup"} => r.fd \in Fds)

CallsRecorded ==
  /\ call = [t \in Pids |-> call[t]]
  /\ \A t \in Pids : call[t] # NoCall => Alive(t) /\ Recorded(call[t])

(* Who has a generated file is in the call it was generated for.           *)
FilesOwned == \A t \in temp : life[t] # "unborn" /\ (Alive(t) => call[t] # NoCall)

(* A directory is made writable for one call at a time, for all of it, and *)
(* only when the processes have it read-only.                              *)
Holds(t, d) == call[t] # NoCall /\ d \in call[t].chmods

ModeKept(d) ==
  /\ \A t, u \in Pids : Holds(t, d) /\ Holds(u, d) => t = u
  /\ (\E t \in Pids : Holds(t, d)) => mode[d] = "rw" /\ own[d] = "ro"
  /\ (\A t \in Pids : ~Holds(t, d)) => mode[d] = own[d]

ModesKept == \A d \in Guarded \ spoiled : ModeKept(d)

(* What the tables say of a process is what the kernel has, ahead of the   *)
(* exit of a call that the kernel has run.                                 *)
NextCwd(t) == IF Ran(t) THEN CwdAfter(t, call[t]) ELSE cwd[t]
NextFds(t) == IF Ran(t) THEN FdsAfter(t, call[t]) ELSE fds[t]
NextStray(t) == IF Ran(t) THEN StrayAfter(t, call[t]) \cup raced[t] ELSE stray[t]

AgreesOn(dir, table, apart, kdir, files) ==
  /\ AT_FDCWD \notin apart => HostPath(binds, dir, TRUE) = kdir
  /\ \A f \in Fds \ apart :
       /\ f \in DOMAIN table <=> files[f] \in Dirs
       /\ f \in DOMAIN table => HostPath(binds, table[f], TRUE) = files[f]

Follows(t) ==
  /\ AgreesOn(NextCwd(t), NextFds(t), NextStray(t), kcwd[t], kfds[t])
  /\ (call[t] # NoCall /\ call[t].of.name \in {"chdir", "open"} /\ HasBase(t, call[t].of.arg))
       => call[t].path.host = HostPath(binds, call[t].path.at, TRUE)

TablesFollow == ~remounted => \A t \in Pids : Alive(t) => Follows(t)

PathsInv == Typed /\ CallsRecorded /\ FilesOwned /\ ModesKept /\ TablesFollow

-----------------------------------------------------------------------------
(* Paths.  Induction is over sets of numbers: the least for which a claim  *)
(* fails.                                                                  *)

LEMMA MinOfNaturals ==
  ASSUME NEW S, S \subseteq Nat, S # {}
  PROVE  \E x \in S : \A y \in S : x <= y
<1>1. IsWellFoundedOn({ss \in Nat \X Nat : ss[1] < ss[2]}, Nat)
  BY NatLessThanWellFounded DEF OpToRel
<1>2. PICK x \in S : \A y \in S : ~ (<<y, x>> \in {ss \in Nat \X Nat : ss[1] < ss[2]})
  BY <1>1, WFMin
<1>3. ASSUME NEW y \in S PROVE x <= y
  <2>1. <<y, x>> \in Nat \X Nat
    OBVIOUS
  <2>2. ~ (y < x)
    BY <1>2, <2>1
  <2> QED  BY <2>2
<1> QED  BY <1>3

LEMMA UpwardFromZero ==
  ASSUME NEW n \in Nat, NEW S, 0 \in S, \A i \in 1..n : i - 1 \in S => i \in S
  PROVE  0..n \subseteq S
<1> DEFINE rest == {i \in 0..n : i \notin S}
<1>1. SUFFICES ASSUME rest # {} PROVE FALSE
  OBVIOUS
<1>2. PICK m \in rest : \A i \in rest : m <= i
  <2>1. rest \subseteq Nat
    OBVIOUS
  <2> HIDE DEF rest
  <2> QED  BY <1>1, <2>1, MinOfNaturals
<1>3. m \in 1..n /\ m \notin S
  BY <1>2
<1>4. m - 1 \in 0..n /\ m - 1 \notin rest
  BY <1>2, <1>3
<1> QED  BY <1>3, <1>4

LEMMA EmptyIsVirtual == <<>> \in VirtualNames
BY DEF VirtualNames, PathNames, Virtual

LEMMA ShortenedIsVirtual ==
  ASSUME NEW done \in VirtualNames, NEW x \in STRING
  PROVE  Shortened(done, x) \in VirtualNames
<1>1. done \in Seq(STRING) /\ Len(done) \in Nat /\ DOMAIN done = 1..Len(done)
      /\ \A i \in 1..Len(done) : done[i] \in STRING /\ done[i] # ".."
  BY LenProperties DEF VirtualNames, PathNames, Virtual
<1>2. CASE x # ".."
  <2>1. /\ Append(done, x) \in Seq(STRING) /\ DOMAIN Append(done, x) = 1..(Len(done) + 1)
        /\ \A i \in 1..(Len(done) + 1) : Append(done, x)[i] = IF i <= Len(done) THEN done[i] ELSE x
    BY <1>1
  <2>2. \A i \in 1..(Len(done) + 1) : Append(done, x)[i] # ".."
    BY <1>1, <1>2, <2>1
  <2>3. Append(done, x) \in VirtualNames
    BY <2>1, <2>2 DEF VirtualNames, PathNames, Virtual
  <2> QED  BY <1>2, <2>3 DEF Shortened
<1>3. CASE x = ".." /\ done # <<>>
  <2>1. /\ Front(done) \in Seq(STRING) /\ Len(Front(done)) = Len(done) - 1
        /\ \A i \in 1..(Len(done) - 1) : Front(done)[i] = done[i]
    BY <1>1, <1>3 DEF Front
  <2>2. DOMAIN Front(done) = 1..(Len(done) - 1)
    BY <2>1, LenProperties
  <2> QED  BY <1>1, <1>3, <2>1, <2>2 DEF Shortened, VirtualNames, PathNames, Virtual
<1> QED  BY <1>2, <1>3 DEF Shortened

(* The names so far, for each length: the recursion of Normalized is well  *)
(* defined.                                                                *)
LEMMA PrefixesExist ==
  ASSUME NEW p \in Seq(STRING)
  PROVE  \E d \in [0..Len(p) -> VirtualNames] :
           d[0] = <<>> /\ \A i \in 1..Len(p) : d[i] = Shortened(d[i - 1], p[i])
<1> DEFINE Upto0(m) == \E d \in [0..m -> VirtualNames] :
                         d[0] = <<>> /\ \A i \in 1..m : d[i] = Shortened(d[i - 1], p[i])
           S == {m \in 0..Len(p) : Upto0(m)}
<1>1. Len(p) \in Nat /\ \A i \in 1..Len(p) : p[i] \in STRING
  BY LenProperties
<1>2. Upto0(0)
  <2> DEFINE d == [i \in 0..0 |-> <<>>]
  <2>1. d \in [0..0 -> VirtualNames] /\ d[0] = <<>>
    BY EmptyIsVirtual
  <2>2. \A i \in 1..0 : d[i] = Shortened(d[i - 1], p[i])
    OBVIOUS
  <2> HIDE DEF d
  <2> QED  BY <2>1, <2>2
<1>3. ASSUME NEW m \in 1..Len(p), Upto0(m - 1)
      PROVE  Upto0(m)
  <2>1. PICK d \in [0..(m - 1) -> VirtualNames] :
               d[0] = <<>> /\ \A i \in 1..(m - 1) : d[i] = Shortened(d[i - 1], p[i])
    BY <1>3
  <2> DEFINE e == [i \in 0..m |-> IF i = m THEN Shortened(d[m - 1], p[m]) ELSE d[i]]
  <2>2. m \in Nat \ {0} /\ m - 1 \in 0..(m - 1) /\ \A i \in 0..m : i # m => i \in 0..(m - 1)
    BY <1>1
  <2>3. Shortened(d[m - 1], p[m]) \in VirtualNames
    BY <1>1, <2>1, <2>2, ShortenedIsVirtual
  <2>4. e \in [0..m -> VirtualNames]
    BY <2>1, <2>2, <2>3
  <2>5. e[0] = <<>>
    BY <2>1, <2>2
  <2>6. ASSUME NEW i \in 1..m PROVE e[i] = Shortened(e[i - 1], p[i])
    <3>1. i - 1 \in 0..m /\ i - 1 # m /\ i \in 0..m
      BY <2>2
    <3>2. e[i - 1] = d[i - 1]
      BY <3>1
    <3>3. CASE i = m
      BY <3>1, <3>2, <3>3
    <3>4. CASE i # m
      <4>1. e[i] = d[i] /\ i \in 1..(m - 1)
        BY <2>2, <3>1, <3>4
      <4> QED  BY <2>1, <3>2, <4>1
    <3> QED  BY <3>3, <3>4
  <2> HIDE DEF e
  <2> QED  BY <2>4, <2>5, <2>6
<1>4. 0 \in S /\ \A i \in 1..Len(p) : i - 1 \in S => i \in S
  <2> HIDE DEF Upto0
  <2> QED  BY <1>1, <1>2, <1>3
<1>5. Len(p) \in S
  <2> HIDE DEF S
  <2>1. 0..Len(p) \subseteq S
    BY <1>1, <1>4, UpwardFromZero
  <2> QED  BY <1>1, <2>1
<1> QED  BY <1>5

(* What is normalised has no .. left.                                      *)
LEMMA NormalizedIsVirtual ==
  ASSUME NEW p \in PathNames
  PROVE  Normalized(p) \in VirtualNames
<1> DEFINE Eq(d) == d = [i \in 0..Len(p) |-> IF i = 0 THEN <<>> ELSE Shortened(d[i - 1], p[i])]
           done == CHOOSE d : Eq(d)
           S == {i \in 0..Len(p) : done[i] \in VirtualNames}
<1>1. p \in Seq(STRING) /\ Len(p) \in Nat /\ \A i \in 1..Len(p) : p[i] \in STRING
  BY LenProperties DEF PathNames
<1>2. \E d : Eq(d)
  <2>1. PICK d \in [0..Len(p) -> VirtualNames] :
               d[0] = <<>> /\ \A i \in 1..Len(p) : d[i] = Shortened(d[i - 1], p[i])
    BY <1>1, PrefixesExist
  <2>2. d = [i \in 0..Len(p) |-> d[i]]
    BY <2>1
  <2>3. \A i \in 0..Len(p) : d[i] = IF i = 0 THEN <<>> ELSE Shortened(d[i - 1], p[i])
    BY <1>1, <2>1
  <2>4. Eq(d)
    BY <2>2, <2>3
  <2> QED  BY <2>4
<1>3. Eq(done)
  <2> HIDE DEF Eq
  <2> QED  BY <1>2
<1>4. Normalized(p) = done[Len(p)]
  BY DEF Normalized
<1> HIDE DEF done
<1>5. \A i \in 0..Len(p) : done[i] = IF i = 0 THEN <<>> ELSE Shortened(done[i - 1], p[i])
  BY <1>3
<1>6. 0 \in S
  BY <1>1, <1>5, EmptyIsVirtual
<1>7. ASSUME NEW i \in 1..Len(p), i - 1 \in S PROVE i \in S
  <2>1. i \in 0..Len(p) /\ i # 0 /\ done[i - 1] \in VirtualNames
    BY <1>1, <1>7
  <2>2. done[i] = Shortened(done[i - 1], p[i])
    BY <1>5, <2>1
  <2> QED  BY <1>1, <2>1, <2>2, ShortenedIsVirtual
<1>8. Len(p) \in S
  <2> HIDE DEF S
  <2>1. 0..Len(p) \subseteq S
    BY <1>1, <1>6, <1>7, UpwardFromZero
  <2> QED  BY <1>1, <2>1
<1> QED  BY <1>4, <1>8

(* A path without links is found where it is.                              *)
LEMMA LinkFreeIsFound ==
  ASSUME NEW bs, NEW p, NEW follow \in BOOLEAN, PathsAssumption, LinksOf(bs, p, follow) = {}
  PROVE  HostPath(bs, p, follow) = RawHostPath(bs, p)
<1> DEFINE Step(q) == IF LinksOf(bs, q, follow) = {} THEN q ELSE Followed(bs, q, follow)
           Eq(a) == a = [n \in 0..MaxLinks |-> IF n = 0 THEN p ELSE Step(a[n - 1])]
           after == CHOOSE a : Eq(a)
           S == {n \in 0..MaxLinks : after[n] = p}
<1>1. MaxLinks \in Nat /\ Step(p) = p
  BY DEF PathsAssumption
<1>2. AfterLinks(bs, p, follow) = after[MaxLinks]
  BY DEF AfterLinks
<1> HIDE DEF Step
<1>3. \E a : Eq(a)
  <2> DEFINE a == [n \in 0..MaxLinks |-> p]
  <2>1. \A n \in 0..MaxLinks : a[n] = IF n = 0 THEN p ELSE Step(a[n - 1])
    BY <1>1
  <2>2. a = [n \in 0..MaxLinks |-> a[n]]
    OBVIOUS
  <2>3. Eq(a)
    <3> HIDE DEF a
    <3> QED  BY <2>1, <2>2
  <2> QED  BY <2>3
<1>4. Eq(after)
  <2> HIDE DEF Eq
  <2> QED  BY <1>3
<1> HIDE DEF after
<1>5. \A n \in 0..MaxLinks : after[n] = IF n = 0 THEN p ELSE Step(after[n - 1])
  BY <1>4
<1>6. 0 \in S /\ \A n \in 1..MaxLinks : n - 1 \in S => n \in S
  BY <1>1, <1>5
<1>7. MaxLinks \in S
  <2> HIDE DEF S
  <2> QED  BY <1>1, <1>6, UpwardFromZero
<1>8. AfterLinks(bs, p, follow) = p
  BY <1>2, <1>7
<1> QED  BY <1>8 DEF HostPath

-----------------------------------------------------------------------------
(* What a process means by a path.                                         *)
LEMMA CallShapes ==
  ASSUME PathsAssumption, NEW c \in Calls
  PROVE  /\ c.name = "chdir" => c.arg \in PathAt /\ c.arg.base \in {Absolute, AT_FDCWD}
         /\ c.name \in {"open", "create"} => c.arg \in PathAt
         /\ c.name \in {"fchdir", "close", "dup", "dup2"} => c.fd \in Fds
         /\ c.name = "dup2" => c.to \in Fds
         /\ c.name = "chmod" => c.dir \in Guarded /\ c.mode \in {"ro", "rw"}
         /\ c.name = "mount" => c.source \in PathAt /\ c.source.base \in {Absolute, AT_FDCWD}
         /\ c.name \in {"mount", "umount"} => c.target \in PathAt /\ c.target.base \in {Absolute, AT_FDCWD}
         /\ c.name \in {"chdir", "open", "create", "fchdir", "close", "dup", "dup2", "chmod", "mtab",
                        "mount", "umount"}
<1>1. c \in ProgramCalls
  BY DEF PathsAssumption
<1> QED  BY <1>1 DEF ProgramCalls, Path, PathAt, Bases

LEMMA TableShape ==
  ASSUME Typed, NEW t \in Pids
  PROVE  /\ DOMAIN fds[t] \subseteq Fds /\ fds[t] \in [DOMAIN fds[t] -> VirtualNames]
         /\ \A f \in DOMAIN fds[t] : fds[t][f] \in VirtualNames
<1>1. fds[t] \in Directories
  BY DEF Typed
<1>2. PICK D \in SUBSET Fds : fds[t] \in [D -> VirtualNames]
  BY <1>1 DEF Directories
<1> QED  BY <1>2

LEMMA JoinedIsPath ==
  ASSUME NEW p \in PathNames, NEW q \in PathNames
  PROVE  p \o q \in PathNames
BY ConcatProperties DEF PathNames

LEMMA MeansVirtual ==
  ASSUME PathsAssumption, Typed, NEW t \in Pids, NEW a \in PathAt, HasBase(t, a)
  PROVE  VirtualPath(t, a) \in VirtualNames
<1>1. a.path \in PathNames /\ a.base \in Bases
  BY DEF PathAt
<1>2. cwd[t] \o a.path \in PathNames
  <2>1. cwd[t] \in PathNames
    BY DEF Typed, VirtualNames
  <2> QED  BY <1>1, <2>1, JoinedIsPath
<1>3. a.base \in DOMAIN fds[t] => fds[t][a.base] \o a.path \in PathNames
  BY <1>1, TableShape, JoinedIsPath DEF VirtualNames
<1> DEFINE p == CASE a.base = Absolute -> a.path
                  [] a.base = AT_FDCWD -> cwd[t] \o a.path
                  [] OTHER -> fds[t][a.base] \o a.path
<1>4. p \in PathNames
  <2>1. CASE a.base = Absolute
    BY <1>1, <2>1 DEF Absolute, AT_FDCWD
  <2>2. CASE a.base = AT_FDCWD
    BY <1>2, <2>2 DEF Absolute, AT_FDCWD
  <2>3. CASE a.base \notin {Absolute, AT_FDCWD}
    BY <1>3, <2>3 DEF HasBase
  <2> QED  BY <2>1, <2>2, <2>3
<1>5. VirtualPath(t, a) = Normalized(p)
  BY DEF VirtualPath
<1> HIDE DEF p
<1> QED  BY <1>4, <1>5, NormalizedIsVirtual

LEMMA RewrittenIsVirtual ==
  ASSUME PathsAssumption, Typed, NEW t \in Pids, NEW c \in Calls, c.name \in {"chdir", "open", "create"}
  PROVE  /\ Rewritten(t, c).at \in VirtualNames
         /\ (HasBase(t, c.arg) /\ c.name # "create")
              => Rewritten(t, c).host = HostPath(binds, Rewritten(t, c).at, TRUE)
<1>1. c.arg \in PathAt
  BY CallShapes
<1>2. CASE HasBase(t, c.arg)
  BY <1>1, <1>2, MeansVirtual DEF Rewritten
<1>3. CASE ~HasBase(t, c.arg)
  BY <1>3, EmptyIsVirtual DEF Rewritten
<1> QED  BY <1>2, <1>3

LEMMA PreparedIsSound ==
  ASSUME PathsAssumption, Typed, NEW t \in Pids, NEW c \in Calls, c.name \in {"mount", "umount"}
  PROVE  /\ Prepared(t, c).at \in VirtualNames
         /\ (c.name = "mount" /\ Prepared(t, c).ok) => IsDir(Prepared(t, c).host)
<1>1. VirtualPath(t, c.target) \in VirtualNames
  BY CallShapes, MeansVirtual DEF HasBase
<1> QED  BY <1>1 DEF Prepared, Mountable

(* The record that an entry makes.                                         *)
LEMMA RecordIsSound ==
  ASSUME PathsAssumption, Typed, NEW t \in Pids, NEW c \in Calls
  PROVE  LET r == Record(t, c)
         IN /\ Recorded(r) /\ r # NoCall /\ r.of = c /\ r.stage = "entered"
            /\ \A d \in r.chmods : mode[d] = "ro"
            /\ (c.name \in {"chdir", "open"} /\ HasBase(t, c.arg))
                 => r.path.host = HostPath(binds, r.path.at, TRUE)
<1> DEFINE r == Record(t, c)
           path == IF c.name \in {"chdir", "open", "create"} THEN Rewritten(t, c)
                   ELSE [at |-> <<>>, host |-> <<>>]
           mount == IF c.name \in {"mount", "umount"} THEN Prepared(t, c)
                    ELSE [ok |-> FALSE, at |-> <<>>, host |-> <<>>]
           chmods == IF c.name = "create" THEN Unlocked(t, c) ELSE {}
<1>1. r = [of |-> c, stage |-> "entered", ok |-> FALSE, fd |-> 0, path |-> path, mount |-> mount,
           chmods |-> chmods]
  BY DEF Record
<1>2. path = [at |-> path.at, host |-> path.host] /\ path.at \in VirtualNames
      /\ ((c.name \in {"chdir", "open"} /\ HasBase(t, c.arg)) => path.host = HostPath(binds, path.at, TRUE))
  <2>1. path = [at |-> path.at, host |-> path.host]
    BY DEF Rewritten
  <2> QED  BY <2>1, RewrittenIsVirtual, EmptyIsVirtual
<1>3. /\ c.name \in {"mount", "umount"} => mount.at \in VirtualNames
      /\ (c.name = "mount" /\ mount.ok) => IsDir(mount.host)
  BY PreparedIsSound
<1>4. chmods \subseteq Guarded /\ \A d \in chmods : mode[d] = "ro"
  BY DEF Unlocked
<1> HIDE DEF r, path, mount, chmods
<1>5. /\ r.of = c /\ r.stage = "entered" /\ r.ok = FALSE /\ r.fd = 0 /\ r.path = path
      /\ r.mount = mount /\ r.chmods = chmods
  BY <1>1
<1>6. Recorded(r)
  BY <1>1, <1>2, <1>3, <1>4, <1>5 DEF Recorded
<1>7. r # NoCall
  BY <1>5 DEF NoCall
<1> QED  BY <1>2, <1>4, <1>5, <1>6, <1>7 DEF r

-----------------------------------------------------------------------------
(* Every step keeps the invariant.                                         *)

LEMMA FollowsKept ==
  ASSUME NEW t \in Pids, Follows(t), binds' = binds, call'[t] = call[t], cwd'[t] = cwd[t],
         fds'[t] = fds[t], stray'[t] = stray[t], raced'[t] = raced[t], kcwd'[t] = kcwd[t],
         kfds'[t] = kfds[t]
  PROVE  Follows(t)'
<1>1. \A a : HasBase(t, a)' <=> HasBase(t, a)
  BY DEF HasBase
<1>2. Ran(t)' <=> Ran(t)
  BY DEF Ran
<1>3. CwdAfter(t, call[t])' = CwdAfter(t, call[t])
  BY DEF CwdAfter
<1>4. HasBase(t, call[t].of.arg)' <=> HasBase(t, call[t].of.arg)
  BY DEF HasBase
<1>5. FdsAfter(t, call[t])' = FdsAfter(t, call[t])
  BY <1>4 DEF FdsAfter
<1>6. StrayAfter(t, call[t])' = StrayAfter(t, call[t])
  BY <1>4 DEF StrayAfter
<1>7. NextCwd(t)' = NextCwd(t) /\ NextFds(t)' = NextFds(t) /\ NextStray(t)' = NextStray(t)
  BY <1>2, <1>3, <1>5, <1>6 DEF NextCwd, NextFds, NextStray
<1>8. AgreesOn(NextCwd(t), NextFds(t), NextStray(t), kcwd[t], kfds[t])'
  BY <1>7 DEF Follows, AgreesOn
<1> QED  BY <1>4, <1>8 DEF Follows

LEMMA Idle ==
  ASSUME NEW t \in Pids, call[t] = NoCall
  PROVE  /\ NextCwd(t) = cwd[t] /\ NextFds(t) = fds[t] /\ NextStray(t) = stray[t]
         /\ Follows(t) <=> AgreesOn(cwd[t], fds[t], stray[t], kcwd[t], kfds[t])
BY DEF Follows, NextCwd, NextFds, NextStray, Ran

LEMMA InitHolds ==
  ASSUME PathsAssumption, Init
  PROVE  PathsInv
<1>1. \A t \in Pids : kcwd[t] = RawHostPath(binds, <<>>)
  BY DEF Init
<1>2. RawHostPath(CliBinds, <<>>) \in Dirs
  <2>1. CASE Over(CliBinds, <<>>) = {}
    <3>1. <<"root">> \o <<>> = <<"root">>
      BY ConcatEmptySeq DEF PathNames
    <3> QED  BY <2>1, <3>1 DEF RawHostPath, PathsAssumption
  <2>2. CASE Over(CliBinds, <<>>) # {}
    <3>1. \A b \in Over(CliBinds, <<>>) : b \in CliBinds /\ b.at = <<>> /\ b.host \in Dirs
      <4>1. TAKE b \in Over(CliBinds, <<>>)
      <4>2. b \in CliBinds /\ IsPrefix(b.at, <<>>) /\ b.at \in Seq(STRING)
        BY DEF Over, PathsAssumption, PathNames
      <4>3. Len(b.at) = 0
        BY <4>2, LenProperties DEF IsPrefix
      <4>4. b.at = <<>>
        BY <4>2, <4>3
      <4> QED  BY <4>2, <4>4 DEF PathsAssumption, Dirs, IsDir
    <3>2. BindFor(CliBinds, <<>>) \in Over(CliBinds, <<>>)
      <4>1. PICK b \in Over(CliBinds, <<>>) : TRUE
        BY <2>2
      <4>2. \A c \in Over(CliBinds, <<>>) : Len(c.at) <= Len(b.at)
        BY <3>1
      <4> QED  BY <4>1, <4>2 DEF BindFor
    <3> DEFINE b == BindFor(CliBinds, <<>>)
    <3>3. b.host \in PathNames /\ b.at = <<>> /\ b.host \in Dirs
      BY <3>1, <3>2 DEF Dirs, PathsAssumption
    <3>4. SubSeq(<<>>, Len(b.at) + 1, Len(<<>>)) = <<>>
      BY <3>3, SubSeqEmpty
    <3>5. b.host \o <<>> = b.host
      BY <3>3, ConcatEmptySeq DEF PathNames
    <3> QED  BY <2>2, <3>3, <3>4, <3>5 DEF RawHostPath
  <2> QED  BY <2>1, <2>2
<1>3. <<>> \in VirtualNames /\ <<>> \in Directories /\ DOMAIN <<>> = {}
  <2>1. <<>> \in [{} -> VirtualNames]
    OBVIOUS
  <2> QED  BY <2>1, EmptyIsVirtual DEF Directories
<1>4. Typed
  <2>1. BindsSound
    BY DEF Init, BindsSound, PathsAssumption, VirtualNames
  <2>2. /\ life \in [Pids -> {"unborn", "alive", "dead"}]
        /\ cwd \in [Pids -> VirtualNames] /\ fds \in [Pids -> Directories]
        /\ kcwd \in [Pids -> Dirs] /\ kfds \in [Pids -> [Fds -> Dirs \cup {NoFile, AFile}]]
        /\ process \in [Pids -> Pids] /\ raced \in [Pids -> SUBSET Entries]
    BY <1>2, <1>3 DEF Init
  <2>3. /\ mode \in [Guarded -> {"ro", "rw"}] /\ own \in [Guarded -> {"ro", "rw"}]
        /\ temp \subseteq Pids /\ spoiled \subseteq Guarded
        /\ remounted \in BOOLEAN /\ stray \in [Pids -> SUBSET Entries]
    BY DEF Init
  <2>4. budget \in Budgets
    BY DEF Init, PathsAssumption, Budgets
  <2> QED  BY <2>1, <2>2, <2>3, <2>4 DEF Typed
<1>5. \A t \in Pids : call[t] = NoCall /\ cwd[t] = <<>> /\ fds[t] = <<>> /\ stray[t] = {}
                      /\ kfds[t] = [f \in Fds |-> NoFile]
  BY DEF Init
<1>6. CallsRecorded /\ FilesOwned /\ ModesKept
  BY <1>5 DEF Init, CallsRecorded, FilesOwned, ModesKept, ModeKept, Holds
<1>7. HostPath(binds, <<>>, TRUE) = RawHostPath(binds, <<>>)
  <2>1. LinksOf(binds, <<>>, TRUE) = {}
    BY DEF LinksOf
  <2> QED  BY <2>1, LinkFreeIsFound
<1>8. ASSUME NEW t \in Pids PROVE Follows(t)
  <2>1. AgreesOn(cwd[t], fds[t], stray[t], kcwd[t], kfds[t])
    <3>1. DOMAIN fds[t] = {} /\ HostPath(binds, cwd[t], TRUE) = kcwd[t]
      BY <1>1, <1>3, <1>5, <1>7
    <3>2. \A f \in Fds : kfds[t][f] \notin Dirs
      BY <1>5 DEF PathsAssumption
    <3> QED  BY <3>1, <3>2 DEF AgreesOn
  <2> QED  BY <1>5, <2>1, Idle
<1> QED  BY <1>4, <1>6, <1>8 DEF PathsInv, TablesFollow

(* Made as a process or as a thread, a task starts with what its maker has *)
(* and what its maker's tables say.                                        *)
LEMMA InheritStep ==
  ASSUME PathsAssumption, PathsInv, NEW t \in Pids, NEW u \in Pids, Inherit(t, u),
         process' \in [Pids -> Pids]
  PROVE  PathsInv'
<1>1. /\ Alive(t) /\ call[t] = NoCall /\ life[u] = "unborn" /\ ~Alive(u) /\ u # t
      /\ life' = [life EXCEPT ![u] = "alive"]
      /\ cwd' = [cwd EXCEPT ![u] = cwd[t]] /\ fds' = [fds EXCEPT ![u] = fds[t]]
      /\ kcwd' = [kcwd EXCEPT ![u] = kcwd[t]] /\ kfds' = [kfds EXCEPT ![u] = kfds[t]]
      /\ stray' = [stray EXCEPT ![u] = stray[t]]
      /\ UNCHANGED <<binds, call, mode, own, temp, budget, remounted, raced, spoiled>>
  BY DEF Inherit, modes, Alive
<1>2. call[u] = NoCall /\ u \notin temp
  BY <1>1 DEF PathsInv, CallsRecorded, FilesOwned
<1>3. Typed'
  BY <1>1 DEF PathsInv, Typed, BindsSound
<1>4. \A v \in Pids : v # u => Alive(v)' = Alive(v)
  BY <1>1 DEF PathsInv, Typed, Alive
<1>5. CallsRecorded'
  BY <1>1, <1>2, <1>4 DEF PathsInv, CallsRecorded
<1>6. FilesOwned'
  BY <1>1, <1>2, <1>4 DEF PathsInv, FilesOwned, Typed
<1>7. ModesKept'
  BY <1>1 DEF PathsInv, ModesKept, ModeKept, Holds
<1>8. ASSUME ~remounted', NEW v \in Pids, Alive(v)' PROVE Follows(v)'
  <2>1. \A w \in Pids : Alive(w) => Follows(w)
    BY <1>1, <1>8 DEF PathsInv, TablesFollow
  <2>2. CASE v # u
    <3>1. /\ call'[v] = call[v] /\ cwd'[v] = cwd[v] /\ fds'[v] = fds[v] /\ stray'[v] = stray[v]
          /\ raced'[v] = raced[v] /\ kcwd'[v] = kcwd[v] /\ kfds'[v] = kfds[v]
      BY <1>1, <2>2 DEF PathsInv, Typed
    <3> QED  BY <1>1, <1>4, <1>8, <2>1, <2>2, <3>1, FollowsKept
  <2>3. CASE v = u
    <3>1. /\ cwd'[u] = cwd[t] /\ fds'[u] = fds[t] /\ stray'[u] = stray[t]
          /\ kcwd'[u] = kcwd[t] /\ kfds'[u] = kfds[t] /\ call'[u] = NoCall
      BY <1>1, <1>2 DEF PathsInv, Typed
    <3>2. AgreesOn(cwd[t], fds[t], stray[t], kcwd[t], kfds[t])
      BY <1>1, <2>1, Idle
    <3>3. AgreesOn(cwd[u], fds[u], stray[u], kcwd[u], kfds[u])'
      BY <1>1, <3>1, <3>2 DEF AgreesOn
    <3> QED  BY <2>3, <3>1, <3>3 DEF Follows, NextCwd, NextFds, NextStray, Ran
  <2> QED  BY <2>2, <2>3
<1> QED  BY <1>3, <1>5, <1>6, <1>7, <1>8 DEF PathsInv, TablesFollow

LEMMA EnterStep ==
  ASSUME PathsAssumption, PathsInv, NEW t \in Pids, NEW c \in Calls, Enter(t, c)
  PROVE  PathsInv'
<1> DEFINE r == Record(t, c)
<1>1. /\ Alive(t) /\ call[t] = NoCall /\ budget.calls > 0
      /\ call' = [call EXCEPT ![t] = r]
      /\ mode' = [d \in Guarded |-> IF d \in r.chmods THEN "rw" ELSE mode[d]]
      /\ temp' = IF c.name = "mtab" THEN temp \cup {t} ELSE temp
      /\ budget' = [budget EXCEPT !.calls = @ - 1]
      /\ UNCHANGED <<life, process, binds, cwd, fds, own, kcwd, kfds, remounted, stray, raced, spoiled>>
  BY DEF Enter, tables, kernel, ghosts, missed
<1>2. /\ Recorded(r) /\ r # NoCall /\ r.of = c /\ r.stage = "entered"
      /\ \A d \in r.chmods : mode[d] = "ro"
      /\ (c.name \in {"chdir", "open"} /\ HasBase(t, c.arg)) => r.path.host = HostPath(binds, r.path.at, TRUE)
  BY RecordIsSound DEF PathsInv
<1> HIDE DEF r
<1>3. /\ call' = [u \in Pids |-> call'[u]] /\ call'[t] = r
      /\ \A u \in Pids : u # t => call'[u] = call[u]
  BY <1>1 DEF PathsInv, CallsRecorded
<1>4. Typed'
  <2>1. budget' \in Budgets
    <3>1. budget \in Budgets
      BY DEF PathsInv, Typed
    <3>2. budget.calls - 1 \in 0..MaxCalls
      BY <1>1, <3>1 DEF PathsAssumption, Budgets
    <3> QED  BY <1>1, <3>1, <3>2 DEF Budgets
  <2>2. mode' \in [Guarded -> {"ro", "rw"}]
    BY <1>1 DEF PathsInv, Typed
  <2> QED  BY <1>1, <2>1, <2>2 DEF PathsInv, Typed, BindsSound
<1>5. CallsRecorded'
  BY <1>1, <1>2, <1>3 DEF PathsInv, CallsRecorded, Alive
<1>6. FilesOwned'
  BY <1>1, <1>2, <1>3 DEF PathsInv, FilesOwned, Alive, Typed
<1>7. ModesKept'
  <2>1. SUFFICES ASSUME NEW d \in Guarded \ spoiled PROVE ModeKept(d)'
    BY <1>1 DEF ModesKept
  <2>2. ASSUME NEW u \in Pids PROVE Holds(u, d)' <=> (IF u = t THEN d \in r.chmods ELSE Holds(u, d))
    BY <1>1, <1>2, <1>3 DEF Holds
  <2>3. d \in Guarded \ spoiled /\ own'[d] = own[d] /\ ~Holds(t, d)
    BY <1>1 DEF Holds
  <2>4. CASE d \in r.chmods
    <3>1. mode[d] = "ro" /\ mode'[d] = "rw"
      BY <1>1, <1>2, <2>3, <2>4
    <3>2. (\A u \in Pids : ~Holds(u, d)) /\ own[d] = "ro"
      BY <2>3, <3>1 DEF PathsInv, ModesKept, ModeKept
    <3> QED  BY <2>2, <2>3, <2>4, <3>1, <3>2 DEF ModeKept
  <2>5. CASE d \notin r.chmods
    <3>1. mode'[d] = mode[d] /\ \A u \in Pids : Holds(u, d)' <=> Holds(u, d)
      BY <1>1, <2>2, <2>3, <2>5
    <3> QED  BY <2>3, <3>1 DEF PathsInv, ModesKept, ModeKept
  <2> QED  BY <2>4, <2>5
<1>8. ASSUME ~remounted', NEW v \in Pids, Alive(v)' PROVE Follows(v)'
  <2>1. Follows(v) /\ Alive(v)
    BY <1>1, <1>8 DEF PathsInv, TablesFollow, Alive
  <2>2. CASE v # t
    BY <1>1, <1>3, <2>1, <2>2, FollowsKept
  <2>3. CASE v = t
    <3>1. AgreesOn(cwd[t], fds[t], stray[t], kcwd[t], kfds[t])
      BY <1>1, <2>1, <2>3, Idle
    <3>2. AgreesOn(cwd[t], fds[t], stray[t], kcwd[t], kfds[t])'
      BY <1>1, <3>1 DEF AgreesOn
    <3>3. ~Ran(t)'
      BY <1>2, <1>3 DEF Ran
    <3>4. NextCwd(t)' = cwd'[t] /\ NextFds(t)' = fds'[t] /\ NextStray(t)' = stray'[t]
      BY <3>3 DEF NextCwd, NextFds, NextStray
    <3>5. HasBase(t, call[t].of.arg)' <=> HasBase(t, c.arg)
      BY <1>1, <1>2, <1>3 DEF HasBase
    <3>6. AgreesOn(NextCwd(t), NextFds(t), NextStray(t), kcwd[t], kfds[t])'
      BY <3>2, <3>4 DEF AgreesOn
    <3> QED  BY <1>1, <1>2, <1>3, <2>3, <3>5, <3>6 DEF Follows
  <2> QED  BY <2>2, <2>3
<1> QED  BY <1>4, <1>5, <1>6, <1>7, <1>8 DEF PathsInv, TablesFollow

(* Killed: what it holds is spoiled, and of a dead process nothing is      *)
(* promised.                                                               *)
LEMMA KillStep ==
  ASSUME PathsAssumption, PathsInv, NEW t \in Pids, Kill(t)
  PROVE  PathsInv'
<1>1. /\ Alive(t) /\ budget.kills > 0
      /\ budget' = [budget EXCEPT !.kills = @ - 1]
      /\ life' = [life EXCEPT ![t] = "dead"]
      /\ call' = [call EXCEPT ![t] = NoCall]
      /\ cwd' = [cwd EXCEPT ![t] = <<>>] /\ fds' = [fds EXCEPT ![t] = <<>>]
      /\ spoiled' = IF call[t] = NoCall THEN spoiled ELSE spoiled \cup call[t].chmods
      /\ UNCHANGED <<process, binds, mode, own, temp, kcwd, kfds, remounted, stray, raced>>
  BY DEF Kill, modes, kernel, missed
<1>2. <<>> \in VirtualNames /\ <<>> \in Directories
  <2>1. <<>> \in [{} -> VirtualNames]
    OBVIOUS
  <2> QED  BY <2>1, EmptyIsVirtual DEF Directories
<1>3. /\ call' = [u \in Pids |-> call'[u]] /\ call'[t] = NoCall
      /\ \A u \in Pids : u # t => call'[u] = call[u]
  BY <1>1 DEF PathsInv, CallsRecorded
<1>4. ~Alive(t)' /\ \A u \in Pids : u # t => life'[u] = life[u] /\ (Alive(u)' <=> Alive(u))
  BY <1>1 DEF PathsInv, Typed, Alive
<1>5. Typed'
  <2>1. budget' \in Budgets
    <3>1. budget \in Budgets
      BY DEF PathsInv, Typed
    <3>2. budget.kills - 1 \in 0..MaxKills
      BY <1>1, <3>1 DEF PathsAssumption, Budgets
    <3> QED  BY <1>1, <3>1, <3>2 DEF Budgets
  <2>2. spoiled' \subseteq Guarded
    BY <1>1 DEF PathsInv, Typed, CallsRecorded, Recorded
  <2>3. BindsSound'
    BY <1>1 DEF PathsInv, Typed, BindsSound
  <2> QED  BY <1>1, <1>2, <2>1, <2>2, <2>3 DEF PathsInv, Typed
<1>6. CallsRecorded'
  BY <1>3, <1>4 DEF PathsInv, CallsRecorded
<1>7. FilesOwned'
  BY <1>1, <1>3, <1>4 DEF PathsInv, FilesOwned, Typed
<1>8. ModesKept'
  <2>1. SUFFICES ASSUME NEW d \in Guarded \ spoiled' PROVE ModeKept(d)'
    BY DEF ModesKept
  <2>2. d \in Guarded \ spoiled /\ ~Holds(t, d)
    BY <1>1, <2>1 DEF Holds
  <2>3. \A u \in Pids : Holds(u, d)' <=> Holds(u, d)
    BY <1>3, <2>2 DEF Holds
  <2> QED  BY <1>1, <2>2, <2>3 DEF PathsInv, ModesKept, ModeKept
<1>9. ASSUME ~remounted', NEW v \in Pids, Alive(v)' PROVE Follows(v)'
  <2>1. v # t /\ Follows(v)
    BY <1>1, <1>4, <1>9 DEF PathsInv, TablesFollow
  <2> QED  BY <1>1, <1>3, <2>1, FollowsKept DEF PathsInv, Typed
<1> QED  BY <1>5, <1>6, <1>7, <1>8, <1>9 DEF PathsInv, TablesFollow

(* What the kernel has is another for all threads of t: the others' tables *)
(* do not follow it, and their histories say so.                           *)
LEMMA KernelTyped ==
  ASSUME Typed, NEW t \in Pids, NEW dir \in Dirs, NEW files \in [Fds -> Dirs \cup {NoFile, AFile}],
         NEW unseen \in SUBSET Entries, KernelHas(t, dir, files, unseen)
  PROVE  /\ kcwd' \in [Pids -> Dirs] /\ kfds' \in [Pids -> [Fds -> Dirs \cup {NoFile, AFile}]]
         /\ stray' \in [Pids -> SUBSET Entries] /\ raced' \in [Pids -> SUBSET Entries]
         /\ kcwd'[t] = dir /\ kfds'[t] = files /\ stray'[t] = stray[t] \cup unseen
         /\ raced'[t] = raced[t]
<1>1. /\ kcwd \in [Pids -> Dirs] /\ kfds \in [Pids -> [Fds -> Dirs \cup {NoFile, AFile}]]
      /\ stray \in [Pids -> SUBSET Entries] /\ raced \in [Pids -> SUBSET Entries]
  BY DEF Typed
<1>2. \A u \in Pids : Changed(u, dir, files) \subseteq Entries
  BY DEF Changed, Entries
<1>3. kcwd' \in [Pids -> Dirs] /\ kfds' \in [Pids -> [Fds -> Dirs \cup {NoFile, AFile}]]
  BY <1>1 DEF KernelHas
<1>4. stray' \in [Pids -> SUBSET Entries]
  BY <1>1, <1>2 DEF KernelHas
<1>5. raced' \in [Pids -> SUBSET Entries]
  BY <1>1, <1>2 DEF KernelHas
<1>6. t \in Threads(t)
  BY DEF Threads
<1>7. kcwd'[t] = dir /\ kfds'[t] = files
  BY <1>6 DEF KernelHas
<1>8. stray'[t] = stray[t] \cup unseen /\ raced'[t] = raced[t]
  BY DEF KernelHas
<1> QED  BY <1>3, <1>4, <1>5, <1>7, <1>8

LEMMA OthersFollow ==
  ASSUME PathsInv, NEW t \in Pids, NEW dir, NEW files, NEW unseen, KernelHas(t, dir, files, unseen),
         NEW v \in Pids, v # t, Follows(v),
         binds' = binds, call'[v] = call[v], cwd'[v] = cwd[v], fds'[v] = fds[v]
  PROVE  Follows(v)'
<1>1. CASE v \notin Threads(t)
  <2>1. kcwd'[v] = kcwd[v] /\ kfds'[v] = kfds[v] /\ stray'[v] = stray[v] /\ raced'[v] = raced[v]
    BY <1>1 DEF KernelHas
  <2> QED  BY <2>1, FollowsKept
<1>2. CASE v \in Threads(t)
  <2> DEFINE other == Changed(v, dir, files)
  <2>1. /\ kcwd'[v] = dir /\ kfds'[v] = files
        /\ stray'[v] = stray[v] \cup (IF Ran(v) THEN {} ELSE other)
        /\ raced'[v] = raced[v] \cup (IF Ran(v) THEN other ELSE {})
    BY <1>2 DEF KernelHas
  <2>2. /\ AT_FDCWD \notin other => dir = kcwd[v]
        /\ \A f \in Fds \ other : files[f] = kfds[v][f]
    BY DEF Changed
  <2> HIDE DEF other
  <2>3. HasBase(v, call[v].of.arg)' <=> HasBase(v, call[v].of.arg)
    BY DEF HasBase
  <2>4. Ran(v)' <=> Ran(v)
    BY DEF Ran
  <2>5. NextCwd(v)' = NextCwd(v)
    BY <2>4 DEF NextCwd, CwdAfter
  <2>6. NextFds(v)' = NextFds(v)
    BY <2>3, <2>4 DEF NextFds, FdsAfter
  <2>7. NextStray(v)' = NextStray(v) \cup other
    <3>1. CASE Ran(v)
      <4>1. stray'[v] = stray[v] /\ raced'[v] = raced[v] \cup other
        BY <2>1, <3>1
      <4>2. StrayAfter(v, call[v])' = StrayAfter(v, call[v])
        BY <2>3, <4>1 DEF StrayAfter
      <4> QED  BY <2>4, <3>1, <4>1, <4>2 DEF NextStray
    <3>2. CASE ~Ran(v)
      BY <2>1, <2>4, <3>2 DEF NextStray
    <3> QED  BY <3>1, <3>2
  <2>8. AgreesOn(NextCwd(v), NextFds(v), NextStray(v), kcwd[v], kfds[v])
    BY DEF Follows
  <2>9. AgreesOn(NextCwd(v), NextFds(v), NextStray(v), kcwd[v], kfds[v])'
    BY <2>1, <2>2, <2>5, <2>6, <2>7, <2>8 DEF AgreesOn
  <2> QED  BY <2>3, <2>9 DEF Follows
<1> QED  BY <1>1, <1>2

LEMMA UnfollowedStep ==
  ASSUME PathsAssumption, PathsInv, NEW t \in Pids, NEW f \in Fds, Unfollowed(t, f)
  PROVE  PathsInv'
<1>1. /\ Alive(t) /\ call[t] = NoCall /\ budget.unfollowed > 0
      /\ budget' = [budget EXCEPT !.unfollowed = @ - 1]
      /\ UNCHANGED <<life, process, binds, cwd, fds, call, mode, own, temp, remounted, spoiled>>
  BY DEF Unfollowed, tables, modes
<1>2. PICK h \in {NoFile} \cup Given \cup {kfds[t][g] : g \in Fds} :
        KernelHas(t, kcwd[t], [kfds[t] EXCEPT ![f] = h], {f})
  BY DEF Unfollowed
<1> DEFINE files == [kfds[t] EXCEPT ![f] = h]
<1>3. /\ kfds[t] \in [Fds -> Dirs \cup {NoFile, AFile}] /\ kcwd[t] \in Dirs
      /\ budget \in Budgets /\ Typed
  BY DEF PathsInv, Typed
<1>4. h \in Dirs \cup {NoFile, AFile}
  BY <1>2, <1>3 DEF PathsAssumption
<1>5. files \in [Fds -> Dirs \cup {NoFile, AFile}] /\ {f} \in SUBSET Entries
      /\ \A g \in Fds : g # f => files[g] = kfds[t][g]
  BY <1>3, <1>4 DEF Entries
<1> HIDE DEF files
<1>6. KernelHas(t, kcwd[t], files, {f})
  BY <1>2 DEF files
<1>7. /\ kcwd' \in [Pids -> Dirs] /\ kfds' \in [Pids -> [Fds -> Dirs \cup {NoFile, AFile}]]
      /\ stray' \in [Pids -> SUBSET Entries] /\ raced' \in [Pids -> SUBSET Entries]
      /\ kcwd'[t] = kcwd[t] /\ kfds'[t] = files /\ stray'[t] = stray[t] \cup {f}
  BY <1>3, <1>5, <1>6, KernelTyped
<1>8. Typed'
  <2>1. budget' \in Budgets
    <3>1. budget.unfollowed - 1 \in 0..MaxUnfollowed
      BY <1>1, <1>3 DEF PathsAssumption, Budgets
    <3> QED  BY <1>1, <1>3, <3>1 DEF Budgets
  <2> QED  BY <1>1, <1>3, <1>7, <2>1 DEF Typed, BindsSound
<1>9. CallsRecorded' /\ FilesOwned' /\ ModesKept'
  BY <1>1 DEF PathsInv, CallsRecorded, FilesOwned, ModesKept, ModeKept, Holds, Alive
<1>10. ASSUME ~remounted', NEW v \in Pids, Alive(v)' PROVE Follows(v)'
  <2>1. Follows(v)
    BY <1>1, <1>10 DEF PathsInv, TablesFollow, Alive
  <2>2. CASE v # t
    BY <1>1, <1>6, <2>1, <2>2, OthersFollow
  <2>3. CASE v = t
    <3>1. AgreesOn(cwd[t], fds[t], stray[t], kcwd[t], kfds[t])
      BY <1>1, <2>1, <2>3, Idle
    <3>2. AgreesOn(cwd[t], fds[t], stray[t], kcwd[t], kfds[t])'
      BY <1>1, <1>5, <1>7, <3>1 DEF AgreesOn
    <3> QED  BY <1>1, <2>3, <3>2 DEF Follows, NextCwd, NextFds, NextStray, Ran
  <2> QED  BY <2>2, <2>3
<1> QED  BY <1>8, <1>9, <1>10 DEF PathsInv, TablesFollow

(* The exit brings the tables to where they were ahead of it.              *)
LEMMA BindsStaySound ==
  ASSUME BindsSound, NEW r, Recorded(r), r.of.name \in {"mount", "umount"}, binds' = BindsAfter(r)
  PROVE  BindsSound'
<1>1. r.mount.at \in VirtualNames /\ (r.of.name = "mount" /\ r.mount.ok => IsDir(r.mount.host))
  BY DEF Recorded
<1>2. CASE ~r.mount.ok
  BY <1>2 DEF BindsAfter, BindsSound
<1>3. CASE r.mount.ok /\ r.of.name = "mount"
  <2>1. binds' = {b \in binds : b.at # r.mount.at} \cup {[at |-> r.mount.at, host |-> r.mount.host]}
    BY <1>3 DEF BindsAfter, AddBind
  <2>2. r.mount.host \in DOMAIN Tree /\ ~IsLink(r.mount.host)
    BY <1>1, <1>3 DEF IsDir, IsLink
  <2> QED  BY <1>1, <2>1, <2>2 DEF BindsSound
<1>4. CASE r.mount.ok /\ r.of.name # "mount"
  <2>1. binds' = {b \in binds : b.at # r.mount.at}
    BY <1>4 DEF BindsAfter, RemoveBind
  <2> QED  BY <2>1 DEF BindsSound
<1> QED  BY <1>2, <1>3, <1>4

LEMMA TablesStayTyped ==
  ASSUME PathsAssumption, Typed, NEW t \in Pids, NEW r, Recorded(r)
  PROVE  /\ CwdAfter(t, r) \in VirtualNames /\ FdsAfter(t, r) \in Directories
         /\ StrayAfter(t, r) \subseteq Entries
<1>1. /\ r.of \in Calls /\ r.path.at \in VirtualNames /\ r.ok \in BOOLEAN
      /\ (r.ok /\ r.of.name \in {"open", "dup"}) => r.fd \in Fds
  BY DEF Recorded
<1>2. /\ r.of.name \in {"fchdir", "close", "dup", "dup2"} => r.of.fd \in Fds
      /\ r.of.name = "dup2" => r.of.to \in Fds
  BY <1>1, CallShapes
<1>3. cwd[t] \in VirtualNames /\ fds[t] \in Directories
  BY DEF Typed
<1>4. \A D \in SUBSET Fds : \A g : g \in [D -> VirtualNames] => g \in Directories
  BY DEF Directories
<1>5. \A table \in Directories, f \in Fds : Without(table, f) \in Directories
  <2>1. TAKE table \in Directories, f \in Fds
  <2>2. PICK D \in SUBSET Fds : table \in [D -> VirtualNames]
    BY DEF Directories
  <2>3. Without(table, f) \in [D \ {f} -> VirtualNames] /\ D \ {f} \in SUBSET Fds
    BY <2>2 DEF Without
  <2> QED  BY <1>4, <2>3
<1>6. \A table \in Directories, f \in Fds, p \in VirtualNames : With(table, f, p) \in Directories
  <2>1. TAKE table \in Directories, f \in Fds, p \in VirtualNames
  <2>2. PICK D \in SUBSET Fds : table \in [D -> VirtualNames]
    BY DEF Directories
  <2>3. With(table, f, p) \in [D \cup {f} -> VirtualNames] /\ D \cup {f} \in SUBSET Fds
    BY <2>2 DEF With
  <2> QED  BY <1>4, <2>3
<1>7. \A table \in Directories, f \in Fds, g \in Fds : Copied(table, f, g) \in Directories
  <2>1. TAKE table \in Directories, f \in Fds, g \in Fds
  <2>2. f \in DOMAIN table => table[f] \in VirtualNames
    BY DEF Directories
  <2> QED  BY <1>6, <2>2 DEF Copied
<1>8. CwdAfter(t, r) \in VirtualNames
  BY <1>1, <1>3 DEF CwdAfter
<1>9. FdsAfter(t, r) \in Directories
  <2>1. CASE ~r.ok
    BY <1>3, <2>1 DEF FdsAfter
  <2>2. CASE r.ok /\ r.of.name = "open"
    BY <1>1, <1>3, <1>6, <2>2 DEF FdsAfter
  <2>3. CASE r.ok /\ r.of.name = "close"
    BY <1>2, <1>3, <1>5, <2>3 DEF FdsAfter
  <2>4. CASE r.ok /\ r.of.name = "dup"
    BY <1>1, <1>2, <1>3, <1>7, <2>4 DEF FdsAfter
  <2>5. CASE r.ok /\ r.of.name = "dup2"
    BY <1>2, <1>3, <1>5, <1>7, <2>5 DEF FdsAfter
  <2>6. CASE r.ok /\ r.of.name \notin {"open", "close", "dup", "dup2"}
    BY <1>3, <2>6 DEF FdsAfter
  <2> QED  BY <1>1, <2>1, <2>2, <2>3, <2>4, <2>5, <2>6
<1>10. StrayAfter(t, r) \subseteq Entries
  <2>1. stray[t] \subseteq Entries
    BY DEF Typed
  <2> QED  BY <1>1, <1>2, <2>1 DEF StrayAfter, Entries
<1> QED  BY <1>8, <1>9, <1>10

LEMMA ExitStep ==
  ASSUME PathsAssumption, PathsInv, NEW t \in Pids, Exit(t)
  PROVE  PathsInv'
<1> DEFINE r == call[t]
<1>1. /\ Alive(t) /\ r # NoCall /\ r.stage = "ran"
      /\ call' = [call EXCEPT ![t] = NoCall]
      /\ fds' = [fds EXCEPT ![t] = FdsAfter(t, r)]
      /\ cwd' = [cwd EXCEPT ![t] = CwdAfter(t, r)]
      /\ binds' = IF r.of.name \in {"mount", "umount"} THEN BindsAfter(r) ELSE binds
      /\ mode' = [d \in Guarded |-> IF d \in r.chmods THEN "ro" ELSE mode[d]]
      /\ temp' = temp \ {t}
      /\ stray' = [stray EXCEPT ![t] = StrayAfter(t, r) \cup raced[t]]
      /\ raced' = [raced EXCEPT ![t] = {}]
      /\ remounted' = (remounted \/ binds' # binds)
      /\ UNCHANGED <<life, process, own, kcwd, kfds, budget, spoiled>>
  BY DEF Exit, CleanUp, kernel
<1>2. Recorded(r) /\ Typed
  BY <1>1 DEF PathsInv, CallsRecorded
<1>3. NextCwd(t) = CwdAfter(t, r) /\ NextFds(t) = FdsAfter(t, r) 
      /\ NextStray(t) = StrayAfter(t, r) \cup raced[t]
  BY <1>1 DEF NextCwd, NextFds, NextStray, Ran
<1>4. /\ call' = [u \in Pids |-> call'[u]] /\ call'[t] = NoCall
      /\ \A u \in Pids : u # t => call'[u] = call[u]
  BY <1>1 DEF PathsInv, CallsRecorded
<1>5. /\ CwdAfter(t, r) \in VirtualNames /\ FdsAfter(t, r) \in Directories
      /\ StrayAfter(t, r) \subseteq Entries
  BY <1>2, TablesStayTyped
<1> HIDE DEF r
<1>6. Typed'
  <2>1. BindsSound'
    <3>1. CASE r.of.name \in {"mount", "umount"}
      BY <1>1, <1>2, <3>1, BindsStaySound DEF Typed
    <3>2. CASE r.of.name \notin {"mount", "umount"}
      BY <1>1, <1>2, <3>2 DEF Typed, BindsSound
    <3> QED  BY <3>1, <3>2
  <2>2. mode' \in [Guarded -> {"ro", "rw"}] /\ remounted' \in BOOLEAN /\ temp' \subseteq Pids
    BY <1>1, <1>2 DEF Typed
  <2>3. /\ cwd' \in [Pids -> VirtualNames] /\ fds' \in [Pids -> Directories]
        /\ stray' \in [Pids -> SUBSET Entries] /\ raced' \in [Pids -> SUBSET Entries]
    BY <1>1, <1>2, <1>5 DEF Typed
  <2> QED  BY <1>1, <1>2, <2>1, <2>2, <2>3 DEF Typed
<1>7. CallsRecorded'
  BY <1>1, <1>4 DEF PathsInv, CallsRecorded, Alive
<1>8. FilesOwned'
  BY <1>1, <1>4 DEF PathsInv, FilesOwned, Typed, Alive
<1>9. ModesKept'
  <2>1. SUFFICES ASSUME NEW d \in Guarded \ spoiled PROVE ModeKept(d)'
    BY <1>1 DEF ModesKept
  <2>2. \A u \in Pids : Holds(u, d)' <=> u # t /\ Holds(u, d)
    BY <1>4 DEF Holds
  <2>3. Holds(t, d) <=> d \in r.chmods
    BY <1>1 DEF Holds, r
  <2>4. own'[d] = own[d] /\ mode'[d] = IF d \in r.chmods THEN "ro" ELSE mode[d]
    BY <1>1
  <2>5. ModeKept(d)
    BY DEF PathsInv, ModesKept
  <2>6. CASE Holds(t, d)
    <3>1. own[d] = "ro" /\ \A u \in Pids : ~Holds(u, d)'
      BY <2>2, <2>5, <2>6 DEF ModeKept
    <3> QED  BY <2>3, <2>4, <2>6, <3>1 DEF ModeKept
  <2>7. CASE ~Holds(t, d)
    <3>1. mode'[d] = mode[d] /\ \A u \in Pids : Holds(u, d)' <=> Holds(u, d)
      BY <2>2, <2>3, <2>4, <2>7
    <3> QED  BY <2>4, <2>5, <3>1 DEF ModeKept
  <2> QED  BY <2>6, <2>7
<1>10. ASSUME ~remounted', NEW v \in Pids, Alive(v)' PROVE Follows(v)'
  <2>1. Follows(v) /\ binds' = binds
    BY <1>1, <1>10 DEF PathsInv, TablesFollow, Alive
  <2>2. CASE v # t
    BY <1>1, <1>4, <2>1, <2>2, FollowsKept DEF PathsInv, Typed
  <2>3. CASE v = t
    <3>1. cwd'[t] = NextCwd(t) /\ fds'[t] = NextFds(t) /\ stray'[t] = NextStray(t)
      BY <1>1, <1>2, <1>3 DEF Typed
    <3>2. AgreesOn(cwd[t], fds[t], stray[t], kcwd[t], kfds[t])'
      BY <1>1, <2>1, <2>3, <3>1 DEF Follows, AgreesOn
    <3> QED  BY <1>4, <2>3, <3>2 DEF Follows, NextCwd, NextFds, NextStray, Ran
  <2> QED  BY <2>2, <2>3
<1> QED  BY <1>6, <1>7, <1>8, <1>9, <1>10 DEF PathsInv, TablesFollow

-----------------------------------------------------------------------------
(* The kernel runs a call.                                                 *)

(* A call on the files of a process: what it has then, and what the exit   *)
(* will make of the table.                                                 *)
FilesFollow(S, D, K, T, E, L) ==     \* apart, table, files; and after the call
  (\A f \in Fds \ S : (f \in DOMAIN D <=> K[f] \in Dirs) /\ (f \in DOMAIN D => HostPath(binds, D[f], TRUE) = K[f]))
  => (\A f \in Fds \ T : (f \in DOMAIN E <=> L[f] \in Dirs) /\ (f \in DOMAIN E => HostPath(binds, E[f], TRUE) = L[f]))

LEMMA LowestFree ==
  ASSUME PathsAssumption, NEW t \in Pids, Free(t) # {}
  PROVE  Min(Free(t)) \in Fds /\ kfds[t][Min(Free(t))] = NoFile
<1>1. Free(t) \subseteq Nat
  BY DEF Free, PathsAssumption
<1>2. \E x \in Free(t) : \A y \in Free(t) : x <= y
  BY <1>1, MinOfNaturals
<1>3. Min(Free(t)) \in Free(t)
  BY <1>2 DEF Min
<1> QED  BY <1>3 DEF Free

(* The outcomes that Run chooses among.                                    *)
Outcome(t, r, x) ==
  /\ x.ok = TRUE /\ x.fds \in [Fds -> Dirs \cup {NoFile, AFile}]
  /\ r.of.name = "open" =>
       /\ x.fd \in Fds /\ kfds[t][x.fd] = NoFile
       /\ x.fds = [kfds[t] EXCEPT ![x.fd] = IF IsDir(r.path.host) THEN r.path.host ELSE AFile]
  /\ r.of.name = "close" => x.fds = [kfds[t] EXCEPT ![r.of.fd] = NoFile]
  /\ r.of.name = "dup" =>
       /\ x.fd \in Fds /\ kfds[t][x.fd] = NoFile /\ kfds[t][r.of.fd] # NoFile
       /\ x.fds = [kfds[t] EXCEPT ![x.fd] = kfds[t][r.of.fd]]
  /\ r.of.name = "dup2" => x.fds = [kfds[t] EXCEPT ![r.of.to] = kfds[t][r.of.fd]]
  /\ r.of.name \notin {"open", "close", "dup", "dup2"} => x.fds = kfds[t]

LEMMA FilesShape ==
  ASSUME PathsAssumption, Typed, NEW t \in Pids, NEW r, r.of \in Calls, NEW x \in Files(t, r)
  PROVE  Outcome(t, r, x)
<1> USE DEF Outcome
<1>1. kfds[t] \in [Fds -> Dirs \cup {NoFile, AFile}]
  BY DEF Typed
<1>2. CASE r.of.name = "open"
  <2>1. x \in Opened(t, r)
    BY <1>2 DEF Files
  <2>2. /\ Free(t) # {} /\ x.ok = TRUE /\ x.fd = Min(Free(t))
        /\ x.fds = [kfds[t] EXCEPT ![Min(Free(t))] = IF IsDir(r.path.host) THEN r.path.host ELSE AFile]
    BY <2>1 DEF Opened
  <2>3. x.fd \in Fds /\ kfds[t][x.fd] = NoFile
    BY <2>2, LowestFree
  <2>4. IsDir(r.path.host) => r.path.host \in Dirs
    BY DEF Dirs, IsDir
  <2>5. x.fds \in [Fds -> Dirs \cup {NoFile, AFile}]
    BY <1>1, <2>2, <2>4
  <2> QED  BY <1>2, <2>2, <2>3, <2>5
<1>3. CASE r.of.name = "close"
  <2>1. x \in {[ok |-> TRUE, fd |-> 0, fds |-> [kfds[t] EXCEPT ![r.of.fd] = NoFile]]}
    BY <1>3 DEF Files
  <2> QED  BY <1>1, <1>3, <2>1
<1>4. CASE r.of.name = "dup"
  <2>1. x \in Duplicated(t, r.of.fd, IF Free(t) = {} THEN {} ELSE {Min(Free(t))})
    BY <1>4 DEF Files
  <2>2. /\ Free(t) # {} /\ kfds[t][r.of.fd] # NoFile /\ x.ok = TRUE /\ x.fd = Min(Free(t))
        /\ x.fds = [kfds[t] EXCEPT ![Min(Free(t))] = kfds[t][r.of.fd]]
    BY <2>1 DEF Duplicated
  <2>3. x.fd \in Fds /\ kfds[t][x.fd] = NoFile
    BY <2>2, LowestFree
  <2>4. kfds[t][r.of.fd] \in Dirs \cup {NoFile, AFile}
    BY <1>1, <1>4, CallShapes
  <2> QED  BY <1>1, <1>4, <2>2, <2>3, <2>4
<1>5. CASE r.of.name = "dup2"
  <2>1. x \in Duplicated(t, r.of.fd, {r.of.to})
    BY <1>5 DEF Files
  <2>2. x.ok = TRUE /\ x.fds = [kfds[t] EXCEPT ![r.of.to] = kfds[t][r.of.fd]]
    BY <2>1 DEF Duplicated
  <2>3. kfds[t][r.of.fd] \in Dirs \cup {NoFile, AFile}
    BY <1>1, <1>5, CallShapes
  <2> QED  BY <1>1, <1>5, <2>2, <2>3
<1>6. CASE r.of.name \notin {"open", "close", "dup", "dup2"}
  <2>1. x \in {[ok |-> TRUE, fd |-> 0, fds |-> kfds[t]]}
    BY <1>6 DEF Files
  <2> QED  BY <1>1, <1>6, <2>1
<1> QED  BY <1>2, <1>3, <1>4, <1>5, <1>6

(* For each call: who agreed before it agrees after it, but for what the   *)
(* tables cannot know of.                                                  *)
LEMMA FilesAfterCall ==
  ASSUME PathsAssumption, Typed, NEW t \in Pids, NEW r, r.of \in Calls, NEW x \in Files(t, r),
         r.ok = TRUE, r.of.name \in {"open", "dup"} => r.fd = x.fd,
         (r.of.name = "open" /\ HasBase(t, r.of.arg)) => r.path.host = HostPath(binds, r.path.at, TRUE)
  PROVE  FilesFollow(stray[t], fds[t], kfds[t], StrayAfter(t, r), FdsAfter(t, r), x.fds)
<1> DEFINE S == stray[t]
           D == fds[t]
           K == kfds[t]
           T == StrayAfter(t, r)
           E == FdsAfter(t, r)
           L == x.fds
           OK(f, d, k) == (f \in DOMAIN d <=> k[f] \in Dirs) /\ (f \in DOMAIN d => HostPath(binds, d[f], TRUE) = k[f])
<1>1. SUFFICES ASSUME \A f \in Fds \ S : OK(f, D, K), NEW f \in Fds \ T PROVE OK(f, E, L)
  BY DEF FilesFollow
<1>2. NoFile \notin Dirs /\ AFile \notin Dirs /\ K \in [Fds -> Dirs \cup {NoFile, AFile}]
  BY DEF PathsAssumption, Typed
<1>8. Outcome(t, r, x)
  BY FilesShape
<1>9. /\ r.of.name \in {"fchdir", "close", "dup", "dup2"} => r.of.fd \in Fds
      /\ r.of.name = "dup2" => r.of.to \in Fds
  BY CallShapes
<1>3. CASE r.of.name = "open"
  <2>1. /\ r.fd \in Fds /\ K[r.fd] = NoFile /\ r.fd = x.fd
        /\ L = [K EXCEPT ![r.fd] = IF IsDir(r.path.host) THEN r.path.host ELSE AFile]
    BY <1>3, <1>8 DEF Outcome
  <2>2. \A g \in Fds : L[g] = IF g = r.fd THEN (IF IsDir(r.path.host) THEN r.path.host ELSE AFile) ELSE K[g]
    BY <1>2, <2>1
  <2>3. CASE IsDir(r.path.host) /\ HasBase(t, r.of.arg)
    <3>1. E = With(D, r.fd, r.path.at) /\ T = S \ {r.fd}
      <4>1. E = With(D, r.fd, r.path.at)
        BY <1>3, <2>3 DEF FdsAfter
      <4>2. T = S \ {r.fd}
        BY <1>3, <2>3 DEF StrayAfter
      <4> QED  BY <4>1, <4>2
    <3>2. /\ DOMAIN E = DOMAIN D \cup {r.fd} /\ E[r.fd] = r.path.at
          /\ \A g \in DOMAIN D : g # r.fd => E[g] = D[g]
      BY <3>1 DEF With
    <3>3. r.path.host \in Dirs
      BY <2>3 DEF Dirs, IsDir
    <3>4. CASE f = r.fd
      BY <1>3, <2>2, <2>3, <3>2, <3>3, <3>4
    <3>5. CASE f # r.fd
      BY <1>1, <2>2, <3>1, <3>2, <3>5
    <3> QED  BY <3>4, <3>5
  <2>4. CASE IsDir(r.path.host) /\ ~HasBase(t, r.of.arg)
    <3>1. E = D /\ T = S \cup {r.fd}
      BY <1>3, <2>4 DEF FdsAfter, StrayAfter
    <3> QED  BY <1>1, <2>2, <3>1
  <2>5. CASE ~IsDir(r.path.host)
    <3>1. E = D /\ T = S
      BY <1>3, <2>5 DEF FdsAfter, StrayAfter
    <3> QED  BY <1>1, <1>2, <2>1, <2>2, <2>5, <3>1
  <2> QED  BY <2>3, <2>4, <2>5
<1>4. CASE r.of.name = "close"
  <2>1. r.of.fd \in Fds /\ L = [K EXCEPT ![r.of.fd] = NoFile]
    BY <1>4, <1>8, <1>9 DEF Outcome
  <2>2. E = Without(D, r.of.fd) /\ T = S \ {r.of.fd}
    BY <1>4 DEF FdsAfter, StrayAfter
  <2>3. DOMAIN E = DOMAIN D \ {r.of.fd} /\ \A g \in DOMAIN E : E[g] = D[g]
    BY <2>2 DEF Without
  <2>4. CASE f = r.of.fd
    BY <1>2, <2>1, <2>3, <2>4
  <2>5. CASE f # r.of.fd
    <3>1. f \notin S /\ L[f] = K[f]
      BY <1>2, <2>1, <2>2, <2>5
    <3> QED  BY <1>1, <2>3, <2>5, <3>1
  <2> QED  BY <2>4, <2>5
<1>5. CASE r.of.name = "dup"
  <2> DEFINE old == r.of.fd
             new == r.fd
  <2>1. /\ old \in Fds /\ new \in Fds /\ K[new] = NoFile /\ K[old] # NoFile /\ old # new
        /\ L = [K EXCEPT ![new] = K[old]]
    BY <1>5, <1>8, <1>9 DEF Outcome
  <2>2. \A g \in Fds : L[g] = IF g = new THEN K[old] ELSE K[g]
    BY <1>2, <2>1
  <2>3. CASE old \in DOMAIN D
    <3>1. E = With(D, new, D[old]) /\ T = IF old \in S THEN S \cup {new} ELSE S \ {new}
      BY <1>5, <2>3 DEF FdsAfter, StrayAfter, Copied
    <3>2. /\ DOMAIN E = DOMAIN D \cup {new} /\ E[new] = D[old]
          /\ \A g \in DOMAIN D : g # new => E[g] = D[g]
      BY <3>1 DEF With
    <3>3. CASE f = new
      <4>1. old \notin S
        BY <3>1, <3>3
      <4>2. OK(old, D, K)
        BY <1>1, <2>1, <4>1
      <4> QED  BY <2>2, <2>3, <3>2, <3>3, <4>2
    <3>4. CASE f # new
      BY <1>1, <2>2, <3>1, <3>2, <3>4
    <3> QED  BY <3>3, <3>4
  <2>4. CASE old \notin DOMAIN D
    <3>1. E = D /\ T = S \cup (IF old \in S THEN {new} ELSE {})
      BY <1>5, <2>4 DEF FdsAfter, StrayAfter, Copied
    <3>2. CASE f = new
      <4>1. old \notin S /\ new \notin S
        BY <3>1, <3>2
      <4>2. OK(old, D, K) /\ OK(new, D, K)
        BY <1>1, <2>1, <4>1
      <4>3. new \notin DOMAIN D /\ K[old] \notin Dirs
        BY <1>2, <2>1, <2>4, <4>2
      <4> QED  BY <2>1, <2>2, <3>1, <3>2, <4>3
    <3>3. CASE f # new
      BY <1>1, <2>2, <3>1, <3>3
    <3> QED  BY <3>2, <3>3
  <2> QED  BY <2>3, <2>4
<1>6. CASE r.of.name = "dup2"
  <2> DEFINE old == r.of.fd
             new == r.of.to
  <2>1. old \in Fds /\ new \in Fds /\ L = [K EXCEPT ![new] = K[old]]
    BY <1>6, <1>8, <1>9 DEF Outcome
  <2>2. \A g \in Fds : L[g] = IF g = new THEN K[old] ELSE K[g]
    BY <1>2, <2>1
  <2>3. E = Copied(Without(D, new), old, new)
    BY <1>6 DEF FdsAfter
  <2>4. T = IF old = new THEN S \cup {old} ELSE IF old \in S THEN S \cup {new} ELSE S \ {new}
    BY <1>6 DEF StrayAfter
  <2>5. DOMAIN Without(D, new) = DOMAIN D \ {new} /\ \A g \in DOMAIN D \ {new} : Without(D, new)[g] = D[g]
    BY DEF Without
  <2>6. CASE f # new
    <3>1. f \in DOMAIN E <=> f \in DOMAIN D
      BY <2>3, <2>5, <2>6 DEF Copied, With
    <3>2. f \in DOMAIN D => E[f] = D[f]
      BY <2>3, <2>5, <2>6 DEF Copied, With
    <3>3. f \notin S
      BY <2>4, <2>6
    <3> QED  BY <1>1, <2>2, <2>6, <3>1, <3>2, <3>3
  <2>7. CASE f = new
    <3>1. old # new /\ old \notin S
      BY <2>4, <2>7
    <3>2. OK(old, D, K)
      BY <1>1, <2>1, <3>1
    <3>3. f \in DOMAIN E <=> old \in DOMAIN D
      BY <2>3, <2>5, <2>7, <3>1 DEF Copied, With
    <3>4. old \in DOMAIN D => E[f] = D[old]
      BY <2>3, <2>5, <2>7, <3>1 DEF Copied, With
    <3> QED  BY <2>1, <2>2, <2>7, <3>2, <3>3, <3>4
  <2> QED  BY <2>6, <2>7
<1>7. CASE r.of.name \notin {"open", "close", "dup", "dup2"}
  <2>1. L = K
    BY <1>7, <1>8 DEF Outcome
  <2>2. E = D /\ (T = S \/ T = S \ {AT_FDCWD})
    BY <1>7 DEF FdsAfter, StrayAfter
  <2>3. AT_FDCWD \notin Fds
    BY DEF PathsAssumption, AT_FDCWD
  <2> QED  BY <1>1, <2>1, <2>2, <2>3
<1> QED  BY <1>3, <1>4, <1>5, <1>6, <1>7

(* The kernel looks a path up, and nothing else of the record changes.     *)
LEMMA LookedUpRecord ==
  ASSUME NEW t \in Pids, NEW call0, Recorded(call0)
  PROVE  LET r == LookedUp(t, call0)
         IN /\ Recorded(r) /\ r.of = call0.of /\ r.stage = call0.stage /\ r.ok = call0.ok
            /\ r.fd = call0.fd /\ r.mount = call0.mount /\ r.chmods = call0.chmods
            /\ r.path.at = call0.path.at
            /\ (r.of.name \in {"chdir", "open"} /\ HasBase(t, r.of.arg)) => r.path = call0.path
<1> DEFINE r == LookedUp(t, call0)
<1>1. /\ call0 = [of |-> call0.of, stage |-> call0.stage, ok |-> call0.ok, fd |-> call0.fd,
                  path |-> call0.path, mount |-> call0.mount, chmods |-> call0.chmods]
      /\ call0.path = [at |-> call0.path.at, host |-> call0.path.host]
  BY DEF Recorded
<1>2. CASE r = call0
  BY <1>2
<1>3. CASE r # call0
  <2>1. /\ call0.of.name \in {"open", "create"} /\ ~HasBase(t, call0.of.arg)
        /\ \E h : r = [call0 EXCEPT !.path.host = h]
    BY <1>3 DEF LookedUp
  <2>2. PICK h : r = [call0 EXCEPT !.path.host = h]
    BY <2>1
  <2> DEFINE p == [call0.path EXCEPT !.host = h]
  <2>3. p = [at |-> call0.path.at, host |-> h]
    BY <1>1
  <2>4. r = [call0 EXCEPT !.path = p]
    BY <1>1, <2>2
  <2> HIDE DEF p, r
  <2>5. r = [of |-> call0.of, stage |-> call0.stage, ok |-> call0.ok, fd |-> call0.fd,
             path |-> p, mount |-> call0.mount, chmods |-> call0.chmods]
    BY <1>1, <2>4
  <2>6. /\ r.of = call0.of /\ r.stage = call0.stage /\ r.ok = call0.ok /\ r.fd = call0.fd
        /\ r.path = p /\ r.mount = call0.mount /\ r.chmods = call0.chmods
        /\ p.at = call0.path.at /\ p.host = h
    BY <2>3, <2>5
  <2>7. Recorded(r)
    BY <2>3, <2>5, <2>6 DEF Recorded
  <2> QED  BY <2>1, <2>6, <2>7 DEF r
<1> QED  BY <1>2, <1>3

(* A call that succeeded, of the task t with the outcome x.                *)
Succeeds(t, x) ==
  LET r == LookedUp(t, call[t]) IN
  /\ x \in Files(t, r) /\ Permitted(t, r)
  /\ Alive(t) /\ call[t] # NoCall /\ call[t].stage = "entered" /\ Recorded(call[t])
  /\ UNCHANGED <<life, process, binds, cwd, fds, temp, budget, remounted>>
  /\ call' = [call EXCEPT ![t] = [r EXCEPT !.stage = "ran", !.ok = TRUE, !.fd = x.fd]]
  /\ KernelHas(t, Moved(t, r), x.fds, IF r.of.name = "fchdir" THEN {AT_FDCWD} ELSE {})
  /\ IF r.of.name = "chmod"
     THEN /\ mode' = [mode EXCEPT ![r.of.dir] = r.of.mode]
          /\ own' = [own EXCEPT ![r.of.dir] = r.of.mode]
          /\ spoiled' = IF \E u \in Pids : call[u] # NoCall /\ r.of.dir \in call[u].chmods
                        THEN spoiled \cup {r.of.dir} ELSE spoiled
     ELSE UNCHANGED <<mode, own, spoiled>>

(* What Run does to the record, and to the rest.                           *)
LEMMA RunDoes ==
  ASSUME PathsInv, NEW t \in Pids, Run(t)
  PROVE  \/ /\ call[t] # NoCall /\ call[t].stage = "entered"
            /\ call' = [call EXCEPT ![t].stage = "ran"]
            /\ UNCHANGED <<life, process, binds, cwd, fds, temp, budget, remounted>>
            /\ UNCHANGED <<kcwd, kfds, mode, own, spoiled, stray, raced>>
         \/ \E x : Succeeds(t, x)
<1> DEFINE r == LookedUp(t, call[t])
           results == IF Permitted(t, r) THEN Files(t, r) ELSE {}
<1>1. Alive(t) /\ call[t] # NoCall /\ call[t].stage = "entered" /\ Recorded(call[t])
  BY DEF PathsInv, CallsRecorded, Run
<1>2. UNCHANGED <<life, process, binds, cwd, fds, temp, budget, remounted>>
  BY DEF Run, tables
<1>3. CASE results = {}
  BY <1>1, <1>2, <1>3 DEF Run, kernel, modes, missed
<1>4. CASE results # {}
  <2>1. Permitted(t, r) /\ results = Files(t, r)
    BY <1>4
  <2>2. \E x \in results :
          /\ call' = [call EXCEPT ![t] = [r EXCEPT !.stage = "ran", !.ok = TRUE, !.fd = x.fd]]
          /\ KernelHas(t, Moved(t, r), x.fds, IF r.of.name = "fchdir" THEN {AT_FDCWD} ELSE {})
          /\ IF r.of.name = "chmod"
             THEN /\ mode' = [mode EXCEPT ![r.of.dir] = r.of.mode]
                  /\ own' = [own EXCEPT ![r.of.dir] = r.of.mode]
                  /\ spoiled' = IF \E u \in Pids : call[u] # NoCall /\ r.of.dir \in call[u].chmods
                                THEN spoiled \cup {r.of.dir} ELSE spoiled
             ELSE UNCHANGED <<mode, own, spoiled>>
    BY <1>4 DEF Run, modes
  <2> HIDE DEF results
  <2>3. PICK x \in results :
          /\ call' = [call EXCEPT ![t] = [r EXCEPT !.stage = "ran", !.ok = TRUE, !.fd = x.fd]]
          /\ KernelHas(t, Moved(t, r), x.fds, IF r.of.name = "fchdir" THEN {AT_FDCWD} ELSE {})
          /\ IF r.of.name = "chmod"
             THEN /\ mode' = [mode EXCEPT ![r.of.dir] = r.of.mode]
                  /\ own' = [own EXCEPT ![r.of.dir] = r.of.mode]
                  /\ spoiled' = IF \E u \in Pids : call[u] # NoCall /\ r.of.dir \in call[u].chmods
                                THEN spoiled \cup {r.of.dir} ELSE spoiled
             ELSE UNCHANGED <<mode, own, spoiled>>
    BY <2>2
  <2>4. Succeeds(t, x)
    BY <1>1, <1>2, <2>1, <2>3 DEF Succeeds
  <2> QED  BY <2>4
<1> QED  BY <1>3, <1>4

(* A call that failed: only its record is another.                         *)
LEMMA FailedStep ==
  ASSUME PathsAssumption, PathsInv, NEW t \in Pids, call[t] # NoCall, call[t].stage = "entered",
         call' = [call EXCEPT ![t].stage = "ran"],
         UNCHANGED <<life, process, binds, cwd, fds, temp, budget, remounted>>,
         UNCHANGED <<kcwd, kfds, mode, own, spoiled, stray, raced>>
  PROVE  PathsInv'
<1> DEFINE r == call[t]
           c == call'[t]
<1>1. Recorded(r) /\ Alive(t) /\ ~r.ok
  BY DEF PathsInv, CallsRecorded, Recorded
<1>2. c = [r EXCEPT !.stage = "ran"] /\ call' = [u \in Pids |-> call'[u]]
      /\ \A u \in Pids : u # t => call'[u] = call[u]
  BY DEF PathsInv, CallsRecorded
<1>3. /\ c.of = r.of /\ c.stage = "ran" /\ c.ok = r.ok /\ c.fd = r.fd /\ c.path = r.path
      /\ c.mount = r.mount /\ c.chmods = r.chmods
      /\ c = [of |-> c.of, stage |-> c.stage, ok |-> c.ok, fd |-> c.fd, path |-> c.path,
              mount |-> c.mount, chmods |-> c.chmods]
  <2>1. r = [of |-> r.of, stage |-> r.stage, ok |-> r.ok, fd |-> r.fd, path |-> r.path,
             mount |-> r.mount, chmods |-> r.chmods]
    BY <1>1 DEF Recorded
  <2>2. c = [of |-> r.of, stage |-> "ran", ok |-> r.ok, fd |-> r.fd, path |-> r.path,
             mount |-> r.mount, chmods |-> r.chmods]
    BY <1>2, <2>1
  <2> HIDE DEF r, c
  <2> QED  BY <2>2
<1> HIDE DEF r, c
<1>4. Recorded(c) /\ c # NoCall
  BY <1>1, <1>3 DEF Recorded, NoCall
<1>5. Typed'
  BY DEF PathsInv, Typed, BindsSound
<1>6. CallsRecorded'
  BY <1>2, <1>4, <1>1 DEF PathsInv, CallsRecorded, Alive, c
<1>7. FilesOwned'
  BY <1>2, <1>4 DEF PathsInv, FilesOwned, Alive, c, Typed
<1>8. \A u \in Pids, d \in Guarded : Holds(u, d)' <=> Holds(u, d)
  BY <1>2, <1>3, <1>4 DEF Holds, r, c
<1>9. ModesKept'
  BY <1>8 DEF PathsInv, ModesKept, ModeKept
<1>10. ASSUME ~remounted', NEW v \in Pids, Alive(v)' PROVE Follows(v)'
  <2>1. Follows(v)
    BY <1>10 DEF PathsInv, TablesFollow, Alive
  <2>2. CASE v # t
    BY <1>2, <2>1, <2>2, FollowsKept
  <2>3. CASE v = t
    <3>1. /\ NextCwd(t)' = cwd'[t] /\ NextFds(t)' = fds'[t]
          /\ NextStray(t)' = stray'[t] \cup raced'[t]
      BY <1>1, <1>3, <1>4 DEF NextCwd, NextFds, NextStray, Ran, CwdAfter, FdsAfter, StrayAfter, c
    <3>2. NextCwd(t) = cwd[t] /\ NextFds(t) = fds[t] /\ NextStray(t) = stray[t]
      BY DEF NextCwd, NextFds, NextStray, Ran
    <3>3. AgreesOn(NextCwd(t), NextFds(t), NextStray(t), kcwd[t], kfds[t])'
      BY <2>1, <2>3, <3>1, <3>2 DEF Follows, AgreesOn
    <3>4. HasBase(t, call[t].of.arg)' <=> HasBase(t, r.of.arg)
      BY <1>3 DEF HasBase, c
    <3> QED  BY <1>3, <2>1, <2>3, <3>3, <3>4 DEF Follows, r, c
  <2> QED  BY <2>2, <2>3
<1> QED  BY <1>5, <1>6, <1>7, <1>9, <1>10 DEF PathsInv, TablesFollow

LEMMA SucceedsRecord ==
  ASSUME PathsAssumption, PathsInv, NEW t \in Pids, NEW x, Succeeds(t, x)
  PROVE  LET r == call[t]
             c == call'[t]
         IN /\ Recorded(c) /\ c # NoCall /\ Outcome(t, c, x) /\ x \in Files(t, c)
            /\ c.of = r.of /\ c.stage = "ran" /\ c.ok = TRUE /\ c.fd = x.fd
            /\ c.path = LookedUp(t, r).path /\ c.path.at = r.path.at
            /\ (c.of.name \in {"chdir", "open"} /\ HasBase(t, c.of.arg)) => c.path = r.path
            /\ c.mount = r.mount /\ c.chmods = r.chmods
            /\ call' = [u \in Pids |-> call'[u]]
            /\ \A u \in Pids : u # t => call'[u] = call[u]
<1> DEFINE r == LookedUp(t, call[t])
           c == call'[t]
<1>1. /\ x \in Files(t, r) /\ call[t] # NoCall /\ call[t].stage = "entered" /\ Recorded(call[t])
      /\ call' = [call EXCEPT ![t] = [r EXCEPT !.stage = "ran", !.ok = TRUE, !.fd = x.fd]]
  BY DEF Succeeds
<1>2. call = [u \in Pids |-> call[u]]
  BY DEF PathsInv, CallsRecorded
<1>3. /\ Recorded(r) /\ r.of = call[t].of /\ r.mount = call[t].mount /\ r.chmods = call[t].chmods
      /\ r.path.at = call[t].path.at
      /\ (r.of.name \in {"chdir", "open"} /\ HasBase(t, r.of.arg)) => r.path = call[t].path
  BY <1>1, LookedUpRecord
<1> HIDE DEF r
<1>4. /\ c = [r EXCEPT !.stage = "ran", !.ok = TRUE, !.fd = x.fd]
      /\ call' = [u \in Pids |-> call'[u]]
      /\ \A u \in Pids : u # t => call'[u] = call[u]
  BY <1>1, <1>2
<1>5. c = [of |-> r.of, stage |-> "ran", ok |-> TRUE, fd |-> x.fd, path |-> r.path,
           mount |-> r.mount, chmods |-> r.chmods]
  <2>1. r = [of |-> r.of, stage |-> r.stage, ok |-> r.ok, fd |-> r.fd, path |-> r.path,
             mount |-> r.mount, chmods |-> r.chmods]
    BY <1>3 DEF Recorded
  <2> HIDE DEF c
  <2> QED  BY <1>4, <2>1
<1>6. r.of \in Calls /\ Typed
  BY <1>3 DEF Recorded, PathsInv
<1> HIDE DEF c
<1>7. /\ c.of = r.of /\ c.stage = "ran" /\ c.ok = TRUE /\ c.fd = x.fd /\ c.path = r.path
      /\ c.mount = r.mount /\ c.chmods = r.chmods
  BY <1>5
<1>8. x \in Files(t, c)
  BY <1>1, <1>7 DEF Files, Opened
<1>9. Outcome(t, c, x)
  BY <1>6, <1>7, <1>8, FilesShape
<1>10. Recorded(c) /\ c # NoCall
  BY <1>3, <1>5, <1>7, <1>9 DEF Recorded, Outcome, NoCall
<1>11. call' = [u \in Pids |-> call'[u]] /\ \A u \in Pids : u # t => call'[u] = call[u]
  BY <1>4
<1> QED  BY <1>3, <1>7, <1>8, <1>9, <1>10, <1>11 DEF r, c

LEMMA SucceedsModes ==
  ASSUME PathsAssumption, PathsInv, NEW t \in Pids, NEW x, Succeeds(t, x)
  PROVE  /\ mode' \in [Guarded -> {"ro", "rw"}] /\ own' \in [Guarded -> {"ro", "rw"}]
         /\ spoiled' \subseteq Guarded /\ ModesKept'
<1> DEFINE c == call[t].of
<1>1. /\ mode \in [Guarded -> {"ro", "rw"}] /\ own \in [Guarded -> {"ro", "rw"}] /\ spoiled \subseteq Guarded
  BY DEF PathsInv, Typed
<1>5. LookedUp(t, call[t]).of = c /\ c \in Calls
  <2>1. Recorded(call[t])
    BY DEF Succeeds
  <2>2. LookedUp(t, call[t]).of = c
    BY <2>1, LookedUpRecord
  <2> QED  BY <2>1, <2>2 DEF Recorded
<1>2. \A u \in Pids, d \in Guarded : Holds(u, d)' <=> Holds(u, d)
  <2>1. TAKE u \in Pids, d \in Guarded
  <2>2. CASE u = t
    <3>1. call[t] # NoCall /\ call'[t] # NoCall /\ call'[t].chmods = call[t].chmods
      BY SucceedsRecord DEF Succeeds
    <3> QED  BY <2>2, <3>1 DEF Holds
  <2>3. CASE u # t
    <3>1. call'[u] = call[u]
      BY <2>3, SucceedsRecord, ZenonT(30)
    <3> QED  BY <3>1 DEF Holds
  <2> QED  BY <2>2, <2>3
<1>3. CASE c.name # "chmod"
  <2>1. UNCHANGED <<mode, own, spoiled>>
    BY <1>3, <1>5 DEF Succeeds
  <2> QED  BY <1>1, <1>2, <2>1 DEF PathsInv, ModesKept, ModeKept
<1>4. CASE c.name = "chmod"
  <2>1. /\ mode' = [mode EXCEPT ![c.dir] = c.mode] /\ own' = [own EXCEPT ![c.dir] = c.mode]
        /\ spoiled' = IF \E u \in Pids : call[u] # NoCall /\ c.dir \in call[u].chmods
                      THEN spoiled \cup {c.dir} ELSE spoiled
    BY <1>4, <1>5 DEF Succeeds
  <2>2. c.dir \in Guarded /\ c.mode \in {"ro", "rw"}
    BY <1>4, <1>5, CallShapes
  <2>3. ModesKept'
    <3>1. SUFFICES ASSUME NEW d \in Guarded \ spoiled' PROVE ModeKept(d)'
      BY DEF ModesKept
    <3>2. d \in Guarded \ spoiled /\ ModeKept(d)
      BY <2>1, <3>1 DEF PathsInv, ModesKept
    <3>3. CASE d = c.dir
      <4>1. \A u \in Pids : ~Holds(u, d)
        BY <2>1, <3>1, <3>3 DEF Holds
      <4>2. mode'[d] = own'[d]
        BY <1>1, <2>1, <2>2, <3>3
      <4> QED  BY <1>2, <4>1, <4>2 DEF ModeKept
    <3>4. CASE d # c.dir
      <4>1. mode'[d] = mode[d] /\ own'[d] = own[d]
        BY <1>1, <2>1, <2>2, <3>4
      <4> QED  BY <1>2, <3>2, <4>1 DEF ModeKept
    <3> QED  BY <3>3, <3>4
  <2> QED  BY <1>1, <2>1, <2>2, <2>3
<1> QED  BY <1>3, <1>4

LEMMA SucceedsKernel ==
  ASSUME PathsAssumption, PathsInv, NEW t \in Pids, NEW x, Succeeds(t, x)
  PROVE  LET r == call[t] IN
         /\ kcwd' \in [Pids -> Dirs] /\ kfds' \in [Pids -> [Fds -> Dirs \cup {NoFile, AFile}]]
         /\ stray' \in [Pids -> SUBSET Entries] /\ raced' \in [Pids -> SUBSET Entries]
         /\ kfds'[t] = x.fds /\ kcwd'[t] = Moved(t, r) /\ raced'[t] = raced[t]
         /\ stray'[t] = IF r.of.name = "fchdir" THEN stray[t] \cup {AT_FDCWD} ELSE stray[t]
<1> DEFINE r == LookedUp(t, call[t])
           unseen == IF r.of.name = "fchdir" THEN {AT_FDCWD} ELSE {}
<1>1. Recorded(call[t]) /\ Permitted(t, r) /\ KernelHas(t, Moved(t, r), x.fds, unseen) /\ Typed
  BY DEF Succeeds, PathsInv
<1>2. /\ r.of = call[t].of
      /\ (r.of.name = "chdir" /\ HasBase(t, r.of.arg)) => r.path = call[t].path
  BY <1>1, LookedUpRecord
<1>3. r.of.name = "chdir" => HasBase(t, r.of.arg)
  <2>1. r.of \in Calls
    BY <1>1, <1>2 DEF Recorded
  <2> QED  BY <2>1, CallShapes DEF HasBase
<1>4. Moved(t, r) = Moved(t, call[t])
  BY <1>2, <1>3 DEF Moved
<1>5. x.fds \in [Fds -> Dirs \cup {NoFile, AFile}]
  BY SucceedsRecord DEF Outcome
<1>6. Moved(t, r) \in Dirs /\ unseen \in SUBSET Entries
  BY <1>1 DEF Permitted, Entries
<1> HIDE DEF r, unseen
<1>7. /\ kcwd' \in [Pids -> Dirs] /\ kfds' \in [Pids -> [Fds -> Dirs \cup {NoFile, AFile}]]
      /\ stray' \in [Pids -> SUBSET Entries] /\ raced' \in [Pids -> SUBSET Entries]
      /\ kcwd'[t] = Moved(t, r) /\ kfds'[t] = x.fds /\ stray'[t] = stray[t] \cup unseen
      /\ raced'[t] = raced[t]
  BY <1>1, <1>5, <1>6, KernelTyped
<1>8. stray[t] \cup unseen = IF call[t].of.name = "fchdir" THEN stray[t] \cup {AT_FDCWD} ELSE stray[t]
  BY <1>2 DEF unseen
<1> QED  BY <1>4, <1>7, <1>8

LEMMA SucceedsFollows ==
  ASSUME PathsAssumption, PathsInv, NEW t \in Pids, NEW x, Succeeds(t, x), Follows(t)
  PROVE  Follows(t)'
<1> DEFINE r == call[t]
           l == LookedUp(t, r)
           c == call'[t]
           S == StrayAfter(t, c)
           E == FdsAfter(t, c)
<1>1. /\ Recorded(c) /\ c # NoCall /\ Outcome(t, c, x) /\ x \in Files(t, c)
      /\ c.of = r.of /\ c.stage = "ran" /\ c.ok = TRUE /\ c.fd = x.fd /\ c.path = l.path
      /\ (c.of.name \in {"chdir", "open"} /\ HasBase(t, c.of.arg)) => c.path = r.path
  BY SucceedsRecord
<1>2. /\ r # NoCall /\ r.stage = "entered" /\ binds' = binds /\ fds' = fds /\ cwd' = cwd
      /\ kfds'[t] = x.fds /\ kcwd'[t] = Moved(t, r) /\ raced'[t] = raced[t]
      /\ stray'[t] = IF r.of.name = "fchdir" THEN stray[t] \cup {AT_FDCWD} ELSE stray[t]
  BY SucceedsKernel DEF Succeeds
<1>3. AgreesOn(cwd[t], fds[t], stray[t], kcwd[t], kfds[t])
  BY <1>2 DEF Follows, NextCwd, NextFds, NextStray, Ran
<1>4. (r.of.name \in {"chdir", "open"} /\ HasBase(t, r.of.arg)) => r.path.host = HostPath(binds, r.path.at, TRUE)
  BY <1>2 DEF Follows
<1>5. c.of \in Calls /\ Typed /\ (c.of.name \in {"open", "dup"} => c.fd \in Fds) /\ AT_FDCWD \notin Fds
  BY <1>1 DEF Recorded, PathsInv, PathsAssumption, AT_FDCWD
<1>6. /\ c.of.name \in {"fchdir", "close", "dup", "dup2"} => c.of.fd \in Fds
      /\ c.of.name = "dup2" => c.of.to \in Fds
      /\ c.of.name = "chdir" => HasBase(t, c.of.arg)
  BY <1>5, CallShapes DEF HasBase
<1>16. r.of.name = "chdir" => Moved(t, r) = HostPath(binds, c.path.at, TRUE)
  BY <1>1, <1>4, <1>6 DEF Moved
<1>7. FilesFollow(stray[t], fds[t], kfds[t], S, E, x.fds)
  <2>1. (c.of.name = "open" /\ HasBase(t, c.of.arg)) => c.path.host = HostPath(binds, c.path.at, TRUE)
    BY <1>1, <1>4
  <2> HIDE DEF c
  <2> QED  BY <1>1, <1>5, <2>1, FilesAfterCall
<1> HIDE DEF c, r, l
<1>8. NextFds(t)' = E
  <2>1. HasBase(t, call[t].of.arg)' <=> HasBase(t, c.of.arg)
    BY <1>2 DEF HasBase, c
  <2>2. FdsAfter(t, call[t])' = E
    BY <1>2, <2>1 DEF FdsAfter, c
  <2> QED  BY <1>1, <2>2 DEF NextFds, Ran, c
<1>9. NextCwd(t)' = CwdAfter(t, c)
  BY <1>1, <1>2 DEF NextCwd, Ran, CwdAfter, c
<1>10. NextStray(t)' = (IF r.of.name = "fchdir" THEN S \cup {AT_FDCWD} ELSE S) \cup raced[t]
  <2>1. HasBase(t, call[t].of.arg)' <=> HasBase(t, c.of.arg)
    BY <1>2 DEF HasBase, c
  <2>2. StrayAfter(t, call[t])' = IF r.of.name = "fchdir" THEN S \cup {AT_FDCWD} ELSE S
    <3>1. CASE r.of.name = "fchdir"
      BY <1>1, <1>2, <3>1 DEF StrayAfter, c
    <3>2. CASE r.of.name # "fchdir"
      BY <1>1, <1>2, <2>1, <3>2 DEF StrayAfter, c
    <3> QED  BY <3>1, <3>2
  <2> QED  BY <1>1, <1>2, <2>2 DEF NextStray, Ran, c
<1>11. AT_FDCWD \notin NextStray(t)' => HostPath(binds, CwdAfter(t, c), TRUE) = Moved(t, r)
  <2>1. CASE r.of.name = "chdir"
    BY <1>1, <1>16, <2>1 DEF CwdAfter
  <2>2. CASE r.of.name = "fchdir"
    BY <1>10, <2>2
  <2>3. CASE r.of.name \notin {"chdir", "fchdir"}
    <3>1. AT_FDCWD \in S <=> AT_FDCWD \in stray[t]
      BY <1>1, <1>5, <1>6, <2>3 DEF StrayAfter
    <3>2. CwdAfter(t, c) = cwd[t] /\ Moved(t, r) = kcwd[t]
      BY <1>1, <2>3 DEF CwdAfter, Moved
    <3> QED  BY <1>3, <1>10, <2>3, <3>1, <3>2 DEF AgreesOn
  <2> QED  BY <2>1, <2>2, <2>3
<1>12. \A f \in Fds \ S : (f \in DOMAIN E <=> x.fds[f] \in Dirs) /\ (f \in DOMAIN E => HostPath(binds, E[f], TRUE) = x.fds[f])
  <2> HIDE DEF S, E
  <2> QED  BY <1>3, <1>7 DEF AgreesOn, FilesFollow
<1>13. AgreesOn(CwdAfter(t, c), E, NextStray(t)', Moved(t, r), x.fds)
  <2> HIDE DEF S, E
  <2> QED  BY <1>10, <1>11, <1>12 DEF AgreesOn
<1>14. AgreesOn(NextCwd(t), NextFds(t), NextStray(t), kcwd[t], kfds[t])'
  <2> HIDE DEF S, E
  <2> QED  BY <1>2, <1>8, <1>9, <1>13 DEF AgreesOn
<1>15. HasBase(t, call[t].of.arg)' <=> HasBase(t, c.of.arg)
  BY <1>2 DEF HasBase, c
<1> QED  BY <1>1, <1>2, <1>4, <1>14, <1>15 DEF Follows, c

LEMMA RunStep ==
  ASSUME PathsAssumption, PathsInv, NEW t \in Pids, Run(t)
  PROVE  PathsInv'
<1>1. CASE ~ \E x : Succeeds(t, x)
  BY <1>1, RunDoes, FailedStep
<1>2. CASE \E x : Succeeds(t, x)
  <2>1. PICK x : Succeeds(t, x)
    BY <1>2
  <2>2. /\ Alive(t) /\ UNCHANGED <<life, process, binds, cwd, fds, temp, budget, remounted>>
        /\ \E dir, unseen : KernelHas(t, dir, x.fds, unseen)
    BY <2>1 DEF Succeeds
  <2>3. Typed'
    BY <2>1, <2>2, SucceedsKernel, SucceedsModes DEF PathsInv, Typed, BindsSound
  <2>4. /\ Recorded(call'[t]) /\ call'[t] # NoCall /\ call' = [u \in Pids |-> call'[u]]
        /\ \A u \in Pids : u # t => call'[u] = call[u]
    BY <2>1, SucceedsRecord
  <2>5. CallsRecorded'
    BY <2>2, <2>4 DEF PathsInv, CallsRecorded, Alive
  <2>6. FilesOwned'
    BY <2>2, <2>4 DEF PathsInv, FilesOwned, Alive, Typed
  <2>7. ModesKept'
    BY <2>1, SucceedsModes
  <2>8. ASSUME ~remounted', NEW v \in Pids, Alive(v)' PROVE Follows(v)'
    <3>1. Follows(v)
      BY <2>2, <2>8 DEF PathsInv, TablesFollow, Alive
    <3>2. CASE v = t
      BY <2>1, <3>1, <3>2, SucceedsFollows
    <3>3. CASE v # t
      BY <2>2, <2>4, <3>1, <3>3, OthersFollow
    <3> QED  BY <3>2, <3>3
  <2> QED  BY <2>3, <2>5, <2>6, <2>7, <2>8 DEF PathsInv, TablesFollow
<1> QED  BY <1>1, <1>2

-----------------------------------------------------------------------------
LEMMA Inductive ==
  ASSUME PathsAssumption
  PROVE  Spec => []PathsInv
<1>1. Init => PathsInv
  BY InitHolds
<1>2. PathsInv /\ [Next]_vars => PathsInv'
  <2>1. SUFFICES ASSUME PathsInv, [Next]_vars PROVE PathsInv'
    OBVIOUS
  <2>9. process \in [Pids -> Pids]
    BY <2>1 DEF PathsInv, Typed
  <2>2. ASSUME NEW t \in Pids, NEW u \in Pids, Fork(t, u) \/ Clone(t, u) PROVE PathsInv'
    <3>1. Inherit(t, u) /\ process' \in [Pids -> Pids]
      BY <2>2, <2>9 DEF Fork, Clone
    <3> QED  BY <2>1, <3>1, InheritStep
  <2>3. ASSUME NEW t \in Pids, NEW c \in Calls, Enter(t, c) PROVE PathsInv'
    BY <2>1, <2>3, EnterStep
  <2>4. ASSUME NEW t \in Pids, Run(t) PROVE PathsInv'
    BY <2>1, <2>4, RunStep
  <2>5. ASSUME NEW t \in Pids, Exit(t) PROVE PathsInv'
    BY <2>1, <2>5, ExitStep
  <2>6. ASSUME NEW t \in Pids, Kill(t) PROVE PathsInv'
    BY <2>1, <2>6, KillStep
  <2>7. ASSUME NEW t \in Pids, NEW f \in Fds, Unfollowed(t, f) PROVE PathsInv'
    BY <2>1, <2>7, UnfollowedStep
  <2>8. CASE UNCHANGED vars
    <3>1. /\ UNCHANGED <<life, process, binds, cwd, fds, call, mode, own, temp, kcwd, kfds>>
          /\ UNCHANGED <<budget, remounted, stray, raced, spoiled>>
      BY <2>8 DEF vars, tables, modes, kernel, ghosts, missed
    <3>2. Typed' /\ CallsRecorded' /\ FilesOwned' /\ ModesKept'
      <4>1. Typed'
        BY <2>1, <3>1 DEF PathsInv, Typed, BindsSound
      <4>2. CallsRecorded'
        BY <2>1, <3>1 DEF PathsInv, CallsRecorded, Alive
      <4>3. FilesOwned'
        BY <2>1, <3>1 DEF PathsInv, FilesOwned, Alive
      <4>4. ModesKept'
        BY <2>1, <3>1 DEF PathsInv, ModesKept, ModeKept, Holds
      <4> QED  BY <4>1, <4>2, <4>3, <4>4
    <3>3. ASSUME ~remounted', NEW v \in Pids, Alive(v)' PROVE Follows(v)'
      <4>1. Follows(v)
        BY <2>1, <3>1, <3>3 DEF PathsInv, TablesFollow, Alive
      <4> QED  BY <3>1, <4>1, FollowsKept
    <3> QED  BY <3>2, <3>3 DEF PathsInv, TablesFollow
  <2> QED  BY <2>1, <2>2, <2>3, <2>4, <2>5, <2>6, <2>7, <2>8 DEF Next
<1> QED  BY <1>1, <1>2, PTL DEF Spec

(* The variables have their types, no path has two binds, and no path in a *)
(* table has .. in it, as every path a process gives is normalised.        *)
THEOREM PathsTypeCorrect ==
  ASSUME PathsAssumption
  PROVE  Spec => []TypeOK
<1>1. PathsInv => TypeOK
  <2>1. SUFFICES ASSUME PathsInv PROVE TypeOK
    OBVIOUS
  <2>2. \A b \in binds : Virtual(b.at) /\ b.host \in DOMAIN Tree /\ ~IsLink(b.host)
    BY <2>1 DEF PathsInv, Typed, BindsSound, VirtualNames
  <2>3. ASSUME NEW t \in Pids
        PROVE  /\ Virtual(cwd[t]) /\ DOMAIN fds[t] \subseteq Fds
               /\ \A f \in DOMAIN fds[t] : Virtual(fds[t][f])
               /\ call[t] = NoCall \/ (call[t].of \in Calls /\ call[t].stage \in {"entered", "ran"})
               /\ kcwd[t] \in Dirs /\ stray[t] \cup raced[t] \subseteq Fds \cup {AT_FDCWD}
    <3>1. cwd[t] \in VirtualNames /\ kcwd[t] \in Dirs /\ stray[t] \cup raced[t] \subseteq Fds \cup {AT_FDCWD}
      BY <2>1 DEF PathsInv, Typed, Entries
    <3>2. DOMAIN fds[t] \subseteq Fds /\ \A f \in DOMAIN fds[t] : fds[t][f] \in VirtualNames
      BY <2>1, TableShape DEF PathsInv
    <3>3. call[t] = NoCall \/ (call[t].of \in Calls /\ call[t].stage \in {"entered", "ran"})
      BY <2>1 DEF PathsInv, CallsRecorded, Recorded
    <3> QED  BY <3>1, <3>2, <3>3 DEF VirtualNames
  <2>4. budget.calls \in 0..MaxCalls /\ budget.kills \in 0..MaxKills
        /\ budget.unfollowed \in 0..MaxUnfollowed
    BY <2>1 DEF PathsInv, Typed, Budgets
  <2> QED  BY <2>1, <2>2, <2>3, <2>4 DEF TypeOK, PathsInv, Typed, BindsSound
<1> QED  BY <1>1, Inductive, PTL

(* Between its calls, what the tables say of a task is what the kernel     *)
(* has, but for what changed behind them: by fchdir, another thread or a   *)
(* call that is not followed, and what came of those.                      *)
THEOREM TablesTrackTheKernel ==
  ASSUME PathsAssumption
  PROVE  Spec => []TablesAgree
<1>1. PathsInv => TablesAgree
  <2>1. SUFFICES ASSUME PathsInv, NEW t \in Pids, Alive(t), call[t] = NoCall, ~remounted
                 PROVE  /\ AT_FDCWD \notin stray[t] => HostPath(binds, cwd[t], TRUE) = kcwd[t]
                        /\ \A f \in Fds \ stray[t] :
                             /\ f \in DOMAIN fds[t] <=> kfds[t][f] \in Dirs
                             /\ f \in DOMAIN fds[t] => HostPath(binds, fds[t][f], TRUE) = kfds[t][f]
    BY DEF TablesAgree
  <2>2. Follows(t)
    BY <2>1 DEF PathsInv, TablesFollow
  <2>3. AgreesOn(cwd[t], fds[t], stray[t], kcwd[t], kfds[t])
    BY <2>1, <2>2, Idle
  <2> QED  BY <2>3 DEF AgreesOn
<1> QED  BY <1>1, Inductive, PTL

(* Generated files are removed, and a directory that was made writable for *)
(* a call has its mode again, however many calls overlap.                  *)
THEOREM NothingLeftBehind ==
  ASSUME PathsAssumption
  PROVE  Spec => []CallsCleanUp
<1>1. PathsInv => CallsCleanUp
  BY DEF PathsInv, FilesOwned, ModesKept, ModeKept, Holds, CallsCleanUp
<1> QED  BY <1>1, Inductive, PTL

-----------------------------------------------------------------------------
(* A bind that is new.                                                     *)

LEMMA PrefixIsShorter ==
  ASSUME NEW p \in PathNames, NEW q \in PathNames, IsPrefix(p, q)
  PROVE  Len(p) <= Len(q) /\ (Len(p) = Len(q) => p = q)
<1>1. Len(p) \in Nat /\ Len(q) \in Nat /\ p \in Seq(STRING) /\ q \in Seq(STRING)
  BY LenProperties DEF PathNames
<1>2. Len(p) <= Len(q) /\ SubSeq(p, 1, Len(p)) = SubSeq(q, 1, Len(p))
  BY DEF IsPrefix
<1>3. SubSeq(p, 1, Len(p)) = p /\ SubSeq(q, 1, Len(q)) = q
  BY <1>1, SubSeqFull
<1> QED  BY <1>2, <1>3

LEMMA NewBindCounts ==
  ASSUME PathsAssumption, BindsSound, NEW at \in VirtualNames, NEW host, IsDir(host), LinkFree(at)
  PROVE  HostPath(AddBind(at, host), at, TRUE) = host
<1> DEFINE new == [at |-> at, host |-> host]
           bs == AddBind(at, host)
<1>1. at \in PathNames /\ at \in Seq(STRING) /\ Len(at) \in Nat /\ host \in Seq(STRING)
  BY LenProperties DEF VirtualNames, PathNames, PathsAssumption, IsDir
<1>2. \A b \in bs : b.at \in PathNames /\ ((b \in binds /\ b.at # at) \/ b = new)
  BY <1>1 DEF BindsSound, VirtualNames, AddBind
<1>3. new \in bs /\ binds \ bs \subseteq {b \in binds : b.at = at}
  BY DEF AddBind
<1>4. RawHostPath(bs, at) = host
  <2>1. new \in Over(bs, at)
    <3>1. IsPrefix(at, at)
      BY <1>1 DEF IsPrefix
    <3> QED  BY <1>3, <3>1 DEF Over
  <2>2. ASSUME NEW b \in Over(bs, at) PROVE Len(b.at) <= Len(at) /\ (Len(b.at) >= Len(at) => b = new)
    <3>1. b \in bs /\ IsPrefix(b.at, at) /\ b.at \in PathNames /\ Len(b.at) \in Nat
      BY <1>2, <2>2, LenProperties DEF Over, PathNames
    <3>2. Len(b.at) <= Len(at) /\ (Len(b.at) = Len(at) => b.at = at)
      BY <1>1, <3>1, PrefixIsShorter
    <3> QED  BY <1>1, <1>2, <3>1, <3>2
  <2>3. BindFor(bs, at) = new
    <3>1. new.at = at
      OBVIOUS
    <3>2. \A c \in Over(bs, at) : Len(c.at) <= Len(new.at)
      BY <2>2, <3>1
    <3> DEFINE b == BindFor(bs, at)
    <3>3. b \in Over(bs, at) /\ \A c \in Over(bs, at) : Len(c.at) <= Len(b.at)
      <4> HIDE DEF bs, new
      <4> QED  BY <2>1, <3>2 DEF BindFor
    <3>4. Len(b.at) >= Len(at)
      <4> HIDE DEF b, bs, new
      <4>1. Len(at) <= Len(b.at)
        BY <2>1, <3>1, <3>3
      <4>2. Len(b.at) \in Nat
        BY <1>2, <3>3, LenProperties DEF Over, PathNames
      <4> QED  BY <1>1, <4>1, <4>2
    <3> QED  BY <2>2, <3>3, <3>4
  <2>4. SubSeq(at, Len(at) + 1, Len(at)) = <<>>
    BY <1>1, SubSeqEmpty
  <2>5. host \o <<>> = host
    BY <1>1, ConcatEmptySeq
  <2>6. Over(bs, at) # {}
    BY <2>1
  <2>7. new.at = at /\ new.host = host
    OBVIOUS
  <2> HIDE DEF bs, new
  <2> QED  BY <2>3, <2>4, <2>5, <2>6, <2>7 DEF RawHostPath
<1>5. ASSUME NEW i \in 1..Len(at) PROVE ~IsLink(RawHostPath(bs, Upto(at, i)))
  <2>1. CASE i = Len(at)
    <3>1. Upto(at, i) = at
      BY <1>1, <2>1, SubSeqFull DEF Upto
    <3> QED  BY <1>4, <3>1 DEF IsLink, IsDir
  <2>2. CASE i # Len(at)
    <3> DEFINE q == Upto(at, i)
    <3>1. q \in PathNames /\ Len(q) < Len(at)
      <4>1. \A j \in 1..i : at[j] \in STRING
        BY <1>1, LenProperties
      <4>2. SubSeq(at, 1, i) \in Seq(STRING) /\ Len(SubSeq(at, 1, i)) = i
        BY <4>1, SubSeqProperties
      <4> QED  BY <1>1, <2>2, <4>2 DEF Upto, PathNames
    <3>2. ~IsPrefix(at, q)
      BY <1>1, <3>1, PrefixIsShorter, LenProperties DEF PathNames
    <3> HIDE DEF q
    <3>3. Over(bs, q) = Over(binds, q)
      <4>1. \A b \in Over(bs, q) : b \in Over(binds, q)
        BY <1>2, <3>2 DEF Over
      <4>2. \A b \in Over(binds, q) : b \in Over(bs, q)
        BY <1>3, <3>2 DEF Over
      <4> QED  BY <4>1, <4>2
    <3>4. RawHostPath(bs, q) = RawHostPath(binds, q)
      <4> HIDE DEF bs
      <4> QED  BY <3>3 DEF RawHostPath, BindFor
    <3> QED  BY <3>4 DEF LinkFree, q
  <2> QED  BY <2>1, <2>2
<1>6. LinksOf(bs, at, TRUE) = {}
  BY <1>5 DEF LinksOf
<1> HIDE DEF bs
<1> QED  BY <1>4, <1>6, LinkFreeIsFound DEF bs

(* Only its exit ends a call that the process survives.                    *)
LEMMA EndsByExit ==
  ASSUME PathsInv, [Next]_vars, NEW t \in Pids, Ends(t)
  PROVE  Exit(t)
<1>1. call[t] # NoCall /\ call'[t] = NoCall /\ Alive(t) /\ Alive(t)' /\ call[t].stage = "ran"
  BY DEF Ends
<1>2. call = [u \in Pids |-> call[u]] /\ life \in [Pids -> {"unborn", "alive", "dead"}]
  BY DEF PathsInv, CallsRecorded, Typed
<1>3. ASSUME NEW u \in Pids, NEW v \in Pids, Fork(u, v) \/ Clone(u, v) PROVE FALSE
  BY <1>1, <1>3 DEF Fork, Clone, Inherit
<1>4. ASSUME NEW u \in Pids, NEW c \in Calls, Enter(u, c) PROVE FALSE
  <2>1. call' = [call EXCEPT ![u] = Record(u, c)] /\ call[u] = NoCall
    BY <1>4 DEF Enter
  <2>2. u # t
    BY <1>1, <2>1
  <2> QED  BY <1>1, <1>2, <2>1, <2>2
<1>5. ASSUME NEW u \in Pids, Run(u) PROVE FALSE
  <2>1. call[u].stage = "entered" /\ (\E r : call' = [call EXCEPT ![u] = r])
    BY <1>5 DEF Run
  <2>2. u # t
    BY <1>1, <2>1
  <2> QED  BY <1>1, <1>2, <2>1, <2>2
<1>6. ASSUME NEW u \in Pids, Exit(u) PROVE u = t
  BY <1>1, <1>2, <1>6 DEF Exit
<1>7. ASSUME NEW u \in Pids, Kill(u) PROVE FALSE
  <2>1. call' = [call EXCEPT ![u] = NoCall] /\ life' = [life EXCEPT ![u] = "dead"]
    BY <1>7 DEF Kill
  <2> QED  BY <1>1, <1>2, <2>1 DEF Alive
<1>8. ASSUME NEW u \in Pids, NEW f \in Fds, Unfollowed(u, f) PROVE FALSE
  BY <1>1, <1>8 DEF Unfollowed
<1>9. CASE UNCHANGED vars
  BY <1>1, <1>9 DEF vars
<1> QED  BY <1>3, <1>4, <1>5, <1>6, <1>7, <1>8, <1>9 DEF Next

(* A mount that is told to have succeeded is in effect, and one that is    *)
(* told to have failed is not, but for targets behind a link.              *)
THEOREM MountsAreInEffect ==
  ASSUME PathsAssumption
  PROVE  Spec => MountsTakeEffect
<1>1. ASSUME PathsInv, [Next]_vars, NEW t \in Pids, Ends(t), call[t].of.name \in {"mount", "umount"}
      PROVE  LET m == call[t].mount
             IN IF ~MountAnswer(call[t]) THEN binds' = binds \/ LinkInTree(m.at)
                ELSE IF call[t].of.name = "mount"
                     THEN \A at \in {m.at}, bs \in {binds'} : LinkFree(at) => HostPath(bs, at, TRUE) = m.host
                     ELSE \A b \in binds' : b.at # m.at
  <2> DEFINE r == call[t]
             m == r.mount
  <2>1. binds' = BindsAfter(r)
    BY <1>1, EndsByExit DEF Exit
  <2>2. Recorded(r) /\ BindsSound
    BY <1>1 DEF PathsInv, CallsRecorded, Typed, Ends
  <2>3. m.at \in VirtualNames /\ ((r.of.name = "mount" /\ m.ok) => IsDir(m.host))
    BY <1>1, <2>2 DEF Recorded
  <2> HIDE DEF r
  <2>4. CASE ~MountAnswer(r)
    <3>1. CASE ~m.ok
      BY <2>1, <2>4, <3>1 DEF BindsAfter, r
    <3>2. CASE m.ok /\ r.of.name = "mount"
      BY <2>4, <3>2 DEF MountAnswer, MountPointFails, LinkInTree, r
    <3>3. CASE m.ok /\ r.of.name # "mount"
      BY <2>1, <2>4, <3>3 DEF MountAnswer, BindsAfter, r
    <3> QED  BY <3>1, <3>2, <3>3
  <2>5. CASE MountAnswer(r) /\ r.of.name = "mount"
    <3>1. m.ok /\ binds' = AddBind(m.at, m.host)
      BY <2>1, <2>5 DEF MountAnswer, BindsAfter
    <3>2. LinkFree(m.at) => HostPath(AddBind(m.at, m.host), m.at, TRUE) = m.host
      BY <2>2, <2>3, <2>5, <3>1, NewBindCounts
    <3> QED  BY <2>5, <3>1, <3>2 DEF r
  <2>6. CASE MountAnswer(r) /\ r.of.name # "mount"
    <3>1. m.ok /\ binds' = RemoveBind(m.at)
      BY <2>1, <2>6 DEF MountAnswer, BindsAfter
    <3> QED  BY <2>6, <3>1 DEF RemoveBind, r
  <2> QED  BY <2>4, <2>5, <2>6
<1>2. PathsInv /\ [Next]_vars => [\A t \in Pids : (Ends(t) /\ call[t].of.name \in {"mount", "umount"}) =>
         LET m == call[t].mount
         IN IF ~MountAnswer(call[t]) THEN binds' = binds \/ LinkInTree(m.at)
            ELSE IF call[t].of.name = "mount"
                 THEN \A at \in {m.at}, bs \in {binds'} : LinkFree(at) => HostPath(bs, at, TRUE) = m.host
                 ELSE \A b \in binds' : b.at # m.at]_vars
  BY <1>1
<1> QED  BY <1>2, Inductive, PTL DEF Spec, MountsTakeEffect

=============================================================================
