SPECIFICATION CronFairSpec
CONSTANTS
  Crons = {1, 2}
  NoRow = NoRow
  Gone = Gone
  NoJob = NoJob
  workflow = workflow
  analysis = analysis
  unknown = unknown
  Processes = {workflow, analysis, unknown}
  Methods = {workflow, analysis}
  Workflow = workflow
  Startup = Startup
  Periodic = Periodic
  Day = 2
  Moments <- MomentSets
  Jitter = 0
  MaxEvents = 1
PROPERTIES
  SchedulerSettles
  EnabledRuns
  FiredOncePerMoment
