SPECIFICATION MCSpec
CONSTANTS
    p1 = p1 p2 = p2 r1 = r1 r2 = r2 r3 = r3
    j1 = j1 j2 = j2 s1 = s1 s2 = s2
    recommended = recommended hold = hold claude = claude local = local
    title = title pending = pending applied = applied
    active = active closed = closed
    None = None Torn = Torn
    Proc = {p1, p2}
    Rev = {r1, r2, r3}
    Jd = {j1, j2}
    Screening = {s1, s2}
    Verdict = {recommended, hold}
    Provider = {claude, local}
    Reason = {title}
    Status = {pending, applied}
    Posting = {active, closed}
    Ops <- EveryOp
    MaxEvents = 1
INVARIANTS ManifestIntact NoTornRead AnswerIsCurrent AnswerIsDurable
PROPERTIES LockIsReleased ImplementsAtomicRecord
