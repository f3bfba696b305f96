------------------------------ MODULE LogFiles ------------------------------
(***************************************************************************)
(* The rotating log files of logger/writer.go: one file a day or an hour,   *)
(* old ones compressed or removed when a Write finds that the day or hour   *)
(* has changed.                                                             *)
(*                                                                         *)
(* Write holds the mutex, but it reads the clock several times (does the    *)
(* file change, which day is it, which hour) and an hour may end in         *)
(* between.  Hours are numbered; a file is known by its day, its hour of    *)
(* the day (Whole in the daily mode) and whether it is compressed.          *)
(***************************************************************************)
EXTENDS Integers, Sequences, FiniteSets, Functions

CONSTANTS
  DayHours,    \* hours of a day
  LogConfigs   \* hourly, keep (days, 0 for ever), compress; and the bounds:
               \* hours, lines written, hours that begin within a Write
               \* (slides), crashes and failing file operations (mishaps)

ASSUME LogAssumption ==
  /\ DayHours \in Nat \ {0}
  /\ \A c \in LogConfigs : /\ c.hourly \in BOOLEAN /\ c.compress \in BOOLEAN
                           /\ c.keep \in Nat

VARIABLES
  lcfg,     \* the set-up
  hour,     \* the clock
  files,    \* by name: the lines in the file, and when it was changed
  day,      \* currentDay
  file,     \* the open file, or none
  step,     \* where the Write that holds the mutex is
  old,      \* the files its clean-up has yet to do
  written,  \* ghost: the hour at which each line was written
  slid,     \* ghost: hours that began within a Write
  lost,     \* ghost: lines of a file whose compression was cut short
  mishaps   \* crashes and failures so far

logVars == <<lcfg, hour, files, day, file, step, old, written, slid, lost,
             mishaps>>

Whole == -1
Today == hour \div DayHours
Mishap == mishaps < lcfg.mishaps /\ mishaps' = mishaps + 1

LogInit(used) ==
  /\ lcfg \in LogConfigs
  /\ used \/ lcfg = (CHOOSE c \in LogConfigs : TRUE)
  /\ hour = 0 /\ files = [n \in {} |-> {}] /\ day = 0 /\ file = {}
  /\ step = (IF used THEN "idle" ELSE "off") /\ old = {}
  /\ written = <<>> /\ slid = {} /\ lost = {} /\ mishaps = 0

\* The day has changed or, by the time of the open file's last change, the
\* hour.
ShouldRotate ==
  \/ day # Today
  \/ lcfg.hourly /\ \E f \in file : files[f].mtime # hour

BeginWrite ==
  /\ step = "idle" /\ Len(written) < lcfg.lines
  /\ step' = IF ShouldRotate THEN "rotate"
             ELSE IF file = {} THEN "open" ELSE "write"
  /\ UNCHANGED <<lcfg, hour, files, day, file, old, written, slid, lost,
                 mishaps>>

\* Mutant of TooOld: a compressed file gets no day more.
TooOldAll ==
  {n \in DOMAIN files : lcfg.keep > 0
                        /\ files[n].mtime < hour - lcfg.keep * DayHours}

\* What cleanupOldLogs compresses or removes.
TooOld ==
  LET cutoff == hour - lcfg.keep * DayHours
  IN  {n \in DOMAIN files :
         /\ lcfg.keep > 0 /\ files[n].mtime < cutoff
         /\ n.gz /\ lcfg.compress => files[n].mtime < cutoff - DayHours}

Rotate ==
  /\ step = "rotate" /\ step' = "clean"
  /\ file' = {} /\ day' = Today /\ old' = TooOld
  /\ UNCHANGED <<lcfg, hour, files, written, slid, lost, mishaps>>

Zipped(n) == [n EXCEPT !.gz = TRUE]
Holding(n, lines) ==
  [m \in DOMAIN files \cup {n} |->
     IF m = n THEN [lines |-> lines, mtime |-> hour] ELSE files[m]]
Without(n, fs) == Restrict(fs, DOMAIN fs \ {n})

RemoveFile(n) ==
  /\ step = "clean" /\ n \in old /\ ~(lcfg.compress /\ ~n.gz)
  /\ files' = Without(n, files) /\ old' = old \ {n}
  /\ UNCHANGED <<lcfg, hour, day, file, step, written, slid, lost, mishaps>>

\* The copy replaces the file before gzip has written its end: a Close that
\* fails, or a crash, leaves neither.  A copy that fails leaves the file.  A
\* copy of before that was as old is by then new, or gone.
CompressFile(n) ==
  /\ step = "clean" /\ n \in old /\ lcfg.compress /\ ~n.gz
  /\ old' = old \ {n, Zipped(n)}
  /\ \/ files' = Without(n, Holding(Zipped(n), files[n].lines))
        /\ UNCHANGED <<lost, mishaps>>
     \/ Mishap /\ files' = Without(n, Holding(Zipped(n), {}))
        /\ lost' = lost \cup files[n].lines
     \/ Mishap /\ files' = Without(Zipped(n), files) /\ UNCHANGED lost
  /\ UNCHANGED <<lcfg, hour, day, file, step, written, slid>>

Cleaned ==
  /\ step = "clean" /\ old = {} /\ step' = "open"
  /\ UNCHANGED <<lcfg, hour, files, day, file, old, written, slid, lost,
                 mishaps>>

\* The file of the day noted and the hour it is now; an existing file keeps
\* its time of change.
BuildFilename ==
  [day |-> day, gz |-> FALSE,
   hour |-> IF lcfg.hourly THEN hour % DayHours ELSE Whole]

OpenFile ==
  /\ step = "open"
  /\ \/ /\ step' = "write" /\ file' = {BuildFilename}
        /\ files' = IF BuildFilename \in DOMAIN files THEN files
                    ELSE Holding(BuildFilename, {})
        /\ UNCHANGED mishaps
     \/ step' = "idle" /\ Mishap /\ UNCHANGED <<file, files>>
  /\ UNCHANGED <<lcfg, hour, day, old, written, slid, lost>>

WriteLine ==
  /\ step = "write" /\ step' = "idle"
  /\ written' = Append(written, hour)
  /\ \E f \in file :
       files' = Holding(f, files[f].lines \cup {Len(written) + 1})
  /\ UNCHANGED <<lcfg, hour, day, file, old, slid, lost, mishaps>>

\* Close; the next Write opens a file again.
CloseFile ==
  /\ step = "idle" /\ file # {} /\ file' = {}
  /\ UNCHANGED <<lcfg, hour, files, day, step, old, written, slid, lost,
                 mishaps>>

\* The process dies, half way through a compression perhaps, and starts
\* again: NewRotateWriter.
Restarts ==
  /\ step # "off" /\ Mishap
  /\ \/ UNCHANGED files
     \/ \E n \in old : lcfg.compress /\ ~n.gz /\ files' = Holding(Zipped(n), {})
  /\ step' = "idle" /\ file' = {} /\ old' = {} /\ day' = Today
  /\ UNCHANGED <<lcfg, hour, written, slid, lost>>

HourEnds ==
  /\ step # "off" /\ hour < lcfg.hours /\ hour' = hour + 1
  /\ \/ step = "idle" /\ UNCHANGED slid
     \/ /\ step # "idle" /\ Cardinality(slid) < lcfg.slides
        /\ slid' = slid \cup {hour'}
  /\ UNCHANGED <<lcfg, files, day, file, step, old, written, lost, mishaps>>

LogNext ==
  \/ BeginWrite \/ Rotate \/ Cleaned \/ OpenFile \/ WriteLine \/ CloseFile
  \/ \E n \in DOMAIN files : RemoveFile(n) \/ CompressFile(n)
  \/ Restarts \/ HourEnds

\* A line is in a file for the days files are kept, and for as long again and
\* a day when they are compressed, since the copy's time is that of the
\* compression (writer.go:202-207).  Only a compression cut short loses it.
KeptFor == lcfg.keep * DayHours
           + IF lcfg.compress THEN (lcfg.keep + 1) * DayHours ELSE 0

LinesKept ==
  \A i \in DOMAIN written :
    hour - written[i] <= KeptFor \/ lcfg.keep = 0 =>
      i \in lost \/ \E n \in DOMAIN files : i \in files[n].lines

\* A line is in the file of its hour or day, unless the hour began within a
\* Write: that line goes to the file before, and in the hourly mode the rest
\* of the hour does (writer.go:127); or the day was read before midnight and
\* the hour after (writer.go:139, 166).
DayBegins(h) == DayHours * (h \div DayHours)
Follows(start, h) == \A j \in start + 1..h : j \in slid

InPlace(n, i) ==
  IF n.hour = Whole
  THEN \/ written[i] \div DayHours = n.day
       \/ Follows((n.day + 1) * DayHours - 1, DayBegins(written[i]))
  ELSE LET k == n.day * DayHours + n.hour
       IN  \E start \in {k} \cup ({k + DayHours} \cap slid) :
             start <= written[i] /\ Follows(start, written[i])

LogKept ==
  /\ LinesKept
  /\ \A n \in DOMAIN files : \A i \in files[n].lines : InPlace(n, i)
=============================================================================
