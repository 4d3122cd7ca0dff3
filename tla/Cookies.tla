------------------------------ MODULE Cookies ------------------------------
(***************************************************************************)
(* The client's cookie jar (courierust_client/cookies.rs) over a run of    *)
(* exchanges: a response stores cookies, a request is given those that     *)
(* match it.  A host is its sequence of labels, a path the sequence of its *)
(* segments and separators.                                                *)
(***************************************************************************)
EXTENDS Integers, Sequences, SequencesExt, FiniteSets

CONSTANTS CkHosts,    \* hosts: sequences of labels
          CkIps,      \* those that are address literals
          CkPaths,    \* request targets: sequences over "/", "?" and names
          CkSet,      \* Set-Cookie fields
          CkLimits,   \* limits a jar may be given: [all: max_cookies, host: max_per_host]
          CkSteps,    \* bound: fields stored
          CkLast,     \* bound: the last second of the clock
          CkYears     \* bound: the last year of the calendar

ASSUME CkAssumption == CkLimits \subseteq [all : Nat \ {0}, host : Nat \ {0}] /\ {CkSteps, CkLast, CkYears} \subseteq Nat

VARIABLES jar,       \* CookieJar.cookies
          cklimits,  \* max_cookies and max_per_host
          ckcreated, \* next_created
          ckkept,    \* history since clear(): per key the value last stored, "gone" once deleted
          cknow,     \* unix_now(), in seconds
          cksteps,
          ckdate     \* a month of the calendar and the days before it since 1970-01-01

ckvars == <<jar, cklimits, ckcreated, ckkept, cknow, cksteps, ckdate>>

NoDomain == <<>>
NoPath == <<>>

-----------------------------------------------------------------------------
(* Set-Cookie                                                              *)

Never == "never"
Unset == [domain |-> NoDomain, path |-> NoPath, secure |-> FALSE, max_age |-> Never, expires |-> Never]

\* One attribute of parse_set_cookie(): the last of a kind wins, an empty Domain is none, and a
\* date that does not parse takes back an earlier one.
Attribute(p, a) ==
  CASE a.key = "domain" -> IF a.val = NoDomain THEN p ELSE [p EXCEPT !.domain = a.val]
    [] a.key = "path" -> [p EXCEPT !.path = a.val]
    [] a.key = "secure" -> [p EXCEPT !.secure = TRUE]
    [] a.key = "max-age" -> [p EXCEPT !.max_age = <<a.val>>]
    [] a.key = "expires" -> [p EXCEPT !.expires = a.val]
ParseSetCookie(s) == FoldLeft(Attribute, Unset, s.attrs)

\* deletion_at(): Max-Age counts before Expires, and one that is not positive deletes at once.
DeletionAt(p) == IF p.max_age = Never THEN p.expires
                 ELSE IF p.max_age[1] <= 0 THEN <<0>> ELSE <<cknow + p.max_age[1]>>
Passed(at) == at # Never /\ cknow >= at[1]

CivilYear(y, m) == IF m <= 2 THEN y - 1 ELSE y
\* days_from_civil(), for years that are not negative.
DaysFromCivil(y, m, d) ==
  LET year == CivilYear(y, m)
      era == year \div 400
      yoe == year - era * 400
      doy == (153 * (IF m > 2 THEN m - 3 ELSE m + 9) + 2) \div 5 + d - 1
  IN era * 146097 + yoe * 365 + yoe \div 4 - yoe \div 100 + doy - 719468

-----------------------------------------------------------------------------
(* Matching                                                                *)

\* domain_match()
DomainMatch(host, domain) ==
  \/ host = domain
  \/ /\ host \notin CkIps /\ domain \notin CkIps
     /\ Len(host) > Len(domain) /\ IsSuffix(domain, host)

\* host_matches()
HostMatches(host, c) == IF c.domain = NoDomain THEN host = c.host ELSE DomainMatch(host, c.domain)

\* Faulty variant: a prefix that ends inside a name matches.
PathMatchPrefix(path, cpath) == IsPrefix(cpath, path)
\* path_match(), on the whole request target.
PathMatch(path, cpath) ==
  path = cpath \/ (IsPrefix(cpath, path) /\ (Last(cpath) = "/" \/ path[Len(cpath) + 1] = "/"))

\* default_path(), on the whole request target: up to the last separator.
DefaultPath(path) ==
  LET cuts == {i \in 1..Len(path) : path[i] = "/"}
      cut == CHOOSE i \in cuts : \A j \in cuts : j <= i
  IN IF cut = 1 THEN <<"/">> ELSE SubSeq(path, 1, cut - 1)

EffectiveDomain(c) == IF c.domain = NoDomain THEN c.host ELSE c.domain
CookieKey(c) == <<c.name, EffectiveDomain(c), c.path>>

\* The comparison of store_at().
SameCookie(c, d) == CookieKey(c) = CookieKey(d)

\* drop_oldest()
DropOldest(cs, S) ==
  LET i == CHOOSE i \in S : \A j \in S : cs[i].created <= cs[j].created IN RemoveAt(cs, i)

\* enforce_limits(): one cookie was added, so each limit is over by one at most.
EnforceLimits(cs) ==
  LET a == IF Len(cs) > cklimits.all THEN DropOldest(cs, DOMAIN cs) ELSE cs
      full == {i \in DOMAIN a : Cardinality({j \in DOMAIN a : a[j].host = a[i].host}) > cklimits.host}
  IN IF full = {} THEN a ELSE DropOldest(a, full)

\* store_at(), for a field that parsed: refused outside the domain or above MAX_COOKIE_BYTES,
\* deleting when it is dead.  expires_at is kept and no code looks at it again.
StoreAt(host, path, field) ==
  LET set == ParseSetCookie(field)
      c == [name |-> field.name, value |-> field.value, host |-> host, domain |-> set.domain, secure |-> set.secure,
            path |-> IF set.path # NoPath /\ Head(set.path) = "/" THEN set.path ELSE DefaultPath(path),
            expires_at |-> DeletionAt(set), created |-> 0]
      old == {i \in DOMAIN jar : SameCookie(jar[i], c)}
  IN /\ set.domain # NoDomain => DomainMatch(host, set.domain)
     /\ ~field.big
     /\ IF Passed(DeletionAt(set))
        THEN /\ jar' = (IF old = {} THEN jar ELSE RemoveAt(jar, CHOOSE i \in old : TRUE))
             /\ ckkept' = [k \in DOMAIN ckkept \cup {CookieKey(c)} |-> IF k = CookieKey(c) THEN "gone" ELSE ckkept[k]]
             /\ UNCHANGED ckcreated
        ELSE /\ IF old # {}
                THEN \E i \in {CHOOSE i \in old : TRUE} :
                       jar' = EnforceLimits([jar EXCEPT ![i] = [c EXCEPT !.created = jar[i].created]]) /\ UNCHANGED ckcreated
                ELSE /\ ckcreated' = ckcreated + 1
                     /\ jar' = EnforceLimits(Append(jar, [c EXCEPT !.created = ckcreated + 1]))
             /\ ckkept' = [k \in DOMAIN ckkept \cup {CookieKey(c)} |-> IF k = CookieKey(c) THEN c.value ELSE ckkept[k]]

\* header_value(): the matching cookies, longest path first, then the oldest.
Earlier(c, d) == Len(c.path) > Len(d.path) \/ (Len(c.path) = Len(d.path) /\ c.created < d.created)
HeaderValue(host, path, https) ==
  SetToSortSeq({c \in ToSet(jar) : HostMatches(host, c) /\ PathMatch(path, c.path) /\ (c.secure => https)}, Earlier)

CkInit == jar = <<>> /\ cklimits \in CkLimits /\ ckcreated = 0 /\ ckkept = <<>> /\ cknow = 1 /\ cksteps = 0 /\ ckdate = [y |-> 1970, m |-> 1, n |-> 0]

\* store_cookies(), a field at a time; attach_cookies() reads HeaderValue and changes nothing.
StoreCookies ==
  /\ cksteps < CkSteps /\ cksteps' = cksteps + 1
  /\ \E h \in CkHosts, p \in CkPaths, s \in CkSet : StoreAt(h, p, s)
  /\ UNCHANGED <<cklimits, ckdate, cknow>>

\* clear()
ClearJar ==
  /\ jar # <<>> /\ jar' = <<>> /\ ckkept' = <<>>
  /\ UNCHANGED <<cklimits, ckcreated, cknow, cksteps, ckdate>>

ClockMoves ==
  /\ jar # <<>> /\ cknow < CkLast /\ cknow' = cknow + 1
  /\ UNCHANGED <<jar, cklimits, ckcreated, ckkept, cksteps, ckdate>>

Leap(y) == y % 4 = 0 /\ (y % 100 # 0 \/ y % 400 = 0)
MonthDays(y, m) == IF m = 2 THEN (IF Leap(y) THEN 29 ELSE 28) ELSE IF m \in {4, 6, 9, 11} THEN 30 ELSE 31
\* The calendar against which a date of an Expires attribute is read, a month at a time.
NextMonth ==
  /\ ckdate.y <= CkYears /\ cksteps = 0 /\ cknow = 1
  /\ ckdate' = [n |-> ckdate.n + MonthDays(ckdate.y, ckdate.m), m |-> (ckdate.m % 12) + 1,
                y |-> IF ckdate.m = 12 THEN ckdate.y + 1 ELSE ckdate.y]
  /\ UNCHANGED <<jar, cklimits, ckcreated, ckkept, cknow, cksteps>>

CkNext == (ckdate.n = 0 /\ (StoreCookies \/ ClearJar \/ ClockMoves)) \/ NextMonth

-----------------------------------------------------------------------------
\* The path of a request target, without its query.
UriPath(t) == LET cuts == {i \in DOMAIN t : t[i] = "?"} IN IF cuts = {} THEN t ELSE SubSeq(t, 1, Min(cuts) - 1)

\* The directories of a path: itself and what stands before each separator.
Above(path) == {path} \cup {SubSeq(path, 1, i) : i \in {i \in 1..Len(path) : path[i] = "/"}}
                      \cup {SubSeq(path, 1, i - 1) : i \in {i \in 2..Len(path) : path[i] = "/"}}

\* RFC 6265 5.4: the cookies that belong to a request, expiry apart.
Belongs(c, h, t, https) ==
  /\ \/ h = c.host
     \/ c.domain # NoDomain /\ {h, c.host} \cap CkIps = {} /\ IsSuffix(c.domain, h) /\ IsSuffix(c.domain, c.host)
  /\ c.path \in Above(UriPath(t)) /\ (c.secure => https)

\* Where the code leaves the RFC that its header says it follows: path_match() and
\* default_path() take the query for a part of the path, so a cookie of /p is not sent
\* to /p?x, and one set there without a path may end up under a path of its own.
QueryTaken(c, t) == "?" \in ToSet(t) /\ (c.path = UriPath(t) \/ "?" \in ToSet(c.path))

(***************************************************************************)
(* A request is given the cookies that RFC 6265 gives it, no other and     *)
(* none less: those of its host or of a domain that both hosts belong to,  *)
(* on the way to its path, secure ones over https alone, longer paths      *)
(* first.  Two exceptions are of the code's making: the query (above), and *)
(* expiry, which is looked at only while a field is stored, so that a      *)
(* stored cookie is sent long after its time.  The jar holds at most one   *)
(* cookie of a name, domain and path, the one last stored there, never one *)
(* that was deleted, and keeps its limits.                                 *)
(***************************************************************************)
CookiesStay ==
  /\ jar = <<>> \/ \A h \in CkHosts, t \in CkPaths, https \in BOOLEAN : \A sent \in {HeaderValue(h, t, https)} :
       /\ \A i, j \in DOMAIN sent : i < j => Len(sent[i].path) >= Len(sent[j].path)
       /\ \A c \in ToSet(jar) : ~QueryTaken(c, t) =>
            /\ Belongs(c, h, t, https) /\ ~Passed(c.expires_at) => c \in ToSet(sent)
            /\ c \in ToSet(sent) => Belongs(c, h, t, https)
  /\ \A i \in DOMAIN jar :
       /\ ckkept[CookieKey(jar[i])] = jar[i].value
       /\ \A j \in DOMAIN jar : CookieKey(jar[i]) = CookieKey(jar[j]) => i = j
       /\ Cardinality({j \in DOMAIN jar : jar[j].host = jar[i].host}) <= cklimits.host
  /\ Len(jar) <= cklimits.all

(***************************************************************************)
(* The time an Expires date names is the one the calendar gives, on the    *)
(* first and last day of every month, over leap days and the turn of       *)
(* centuries.                                                              *)
(***************************************************************************)
DatesExact == \A d \in {1, MonthDays(ckdate.y, ckdate.m)} : DaysFromCivil(ckdate.y, ckdate.m, d) = ckdate.n + d - 1

\* The jar and the calendar its deletions rest on.
JarExact == CookiesStay /\ DatesExact
=============================================================================
