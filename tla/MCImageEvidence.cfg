\* Two exact images, four places, five revisions; two attempts of a run; an
\* artifact is kept for two ticks.
CONSTANTS
    a = a  b = b  s1 = s1  s2 = s2  s3 = s3  s4 = s4  v = v  w = w
    None = None
    Source = {s1, s2, s3, s4}
    Image = {a, b}
    Revision <- Revisions
    Vulnerability = {v}
    MaxOccurrence = 1
    MaxParallel = 2
    Retention = 2
    MaxTime = 2
    MaxAttempt = 2
SPECIFICATION FairSpec
INVARIANTS EvidenceTypeOK  TotalsAreOfThisRun SummaryIsNotMixedWithOldEvidence ExceptionsAreAlive 
PROPERTIES RunsAreDecided
